---- MODULE Spec2Model ----
(***************************************************************************)
(* Model of the contract comparison tool.                                  *)
(*                                                                         *)
(*   lib/pdf-parser.ts   extractTextFromPDF, splitIntoSections, parsePDF,  *)
(*                       compareClauses, groupClausesByType,               *)
(*                       findBestMatchWithEmbeddings,                      *)
(*                       analyzeClauseDifferences, determineStatusAndRisk  *)
(*   lib/ai-service.ts   calculateSemanticSimilarity (TF-IDF version)      *)
(*   app/api/compare     POST, normalizeClauseType (unnamed/part_001)      *)
(*   lib/ai-mistral.ts   compareClausesWithMistral                         *)
(*   lib/ai-openai.ts    compareClausesWithOpenAI (unnamed/part_003)       *)
(*                                                                         *)
(* A text is a sequence of lower-case words (the text is the words joined  *)
(* by single spaces).  A similarity score is a pair <<num, den>> standing  *)
(* for the quotient num/den; TF-IDF weights are kept in thousandths.       *)
(***************************************************************************)
EXTENDS Integers, Sequences, FiniteSets, TLC

VARIABLES
    clientClauses,        \* Clause[] of the client document
    vendorClauses,        \* Clause[] of the vendor document
    results,              \* compareClauses: the ComparisonResult[] built so far
    order,                \* compareClauses: client indices as the loops visit them
    pos,                  \* compareClauses: number of client clauses processed
    scored,               \* compareClauses: <<client index, vendor index, score>> of the pairs scored
    gpt,                  \* compareClauses: per result, how its GPT call ended ("" if none)
    bestMatch,            \* compareClauses: the match of the iteration under way, NoMatch if none
    phase,                \* position of the running handler
    model,                \* POST: form field 'model'
    calls,                \* POST: per key clause type, how far its async callback is
    aiRes,                \* POST: per key clause type, what its callback settled to
    completed,            \* POST: the key clause indices in the order their callbacks settled
    response,             \* POST: the response returned, status 0 while none
    request,              \* POST: the request received, NoRequest while none
    clientDoc,            \* the text pdf-parse extracts from the client file
    vendorDoc,            \* the text pdf-parse extracts from the vendor file
    parseError,           \* parsePDF: the message of the error thrown, "" while none
    lineNo,               \* splitIntoSections: number of lines consumed
    sections,             \* splitIntoSections: the sections pushed so far
    currentSection,       \* splitIntoSections: the section in progress, NoSection if null
    arg1,                 \* calculateSemanticSimilarity: first text block at hand
    arg2,                 \* calculateSemanticSimilarity: second text block at hand
    scores,               \* calculateSemanticSimilarity: the calls made, each with its value
    apiKey,               \* enhanceResultsWithAI: whether process.env.OPENAI_API_KEY is set
    enhanced,             \* enhanceResultsWithAI: the list returned, <<>> while none
    pipelines,            \* part_002: the module variables classifier and embedder, 0 for null
    built,                \* part_002: per variable, the number of pipeline() calls made for it
    callers,              \* part_002: per caller of getClassifier / getEmbedder, where it is
    clientFile,           \* UI state clientFile: whether a file is chosen
    vendorFile,           \* UI state vendorFile: whether a file is chosen
    loading,              \* UI state loading
    uiError,              \* UI state error, "" for null
    progress,             \* UI state progress
    finalizing,           \* UI state finalizing
    shown,                \* UI state aiComparisonResults: the list on display
    timer,                \* handleCompare: the progress interval
    currentStep,          \* handleCompare: the closure variable of the interval callback
    fetch,                \* handleCompare: where the request of the running attempt is
    obligationText,       \* splitIntoObligations: the argument text
    obligations,          \* splitIntoObligations: the local list
    pass                  \* splitIntoObligations: the number of passes made

docVars == <<request, clientDoc, vendorDoc, parseError>>
segVars == <<lineNo, sections, currentSection>>
scorerVars == <<arg1, arg2, scores>>
enhanceVars == <<apiKey, enhanced>>
singletonVars == <<pipelines, built, callers>>
uiVars == <<clientFile, vendorFile, loading, uiError, progress, finalizing, shown,
            timer, currentStep, fetch>>
obligationVars == <<obligationText, obligations, pass>>
restVars == <<enhanceVars, singletonVars, uiVars, obligationVars>>

vars == <<clientClauses, vendorClauses, results, order, pos, scored, gpt, bestMatch, phase,
          model, calls, aiRes, completed, response, docVars, segVars, scorerVars, restVars>>

----------------------------------------------------------------------------
(* Bounds *)

MaxClient == 3
MaxVendor == 2
MaxLines == 4
MaxWords == 2
MaxCallers == 3
MaxPieces == 3

----------------------------------------------------------------------------
(* Small helpers *)

Min(a, b) == IF a <= b THEN a ELSE b
Max(a, b) == IF a >= b THEN a ELSE b

Range(s) == {s[i] : i \in 1..Len(s)}

RECURSIVE SumOver(_, _)
SumOver(S, f) ==
    IF S = {} THEN 0
    ELSE LET x == CHOOSE y \in S : TRUE
         IN  f[x] + SumOver(S \ {x}, f)

SeqsUpTo(S, lo, hi) == UNION {[1..n -> S] : n \in lo..hi}

----------------------------------------------------------------------------
(* Words and the classifier: pdf-parser.ts classifyClauseType *)

\* natural's English stop words that occur in the vocabulary below; the
\* tokenizer leaves of a section marker its digits and single letters, which
\* are stop words too.
StopWords == {"the", "1.", "2.", "1.1", "A.", "A.1", "a.", "a.1", "(a)"}

\* The keyword groups of classifyClauseType, in the order they are tested.
ClauseTypeOrder ==
    <<"Payment Terms", "Delivery Terms", "Risk and Liability", "Acceptance",
      "Termination", "Confidentiality", "Intellectual Property",
      "Service Level", "Data Protection", "Force Majeure", "Governing Law">>

\* The types whose keyword set has a substring hit in the word w.
WordHits(w) ==
    CASE w = "payment"   -> {"Payment Terms"}
      [] w = "invoice"   -> {"Payment Terms"}
      [] w = "delivery"  -> {"Delivery Terms"}
      [] w = "terminate" -> {"Termination"}
      [] w = "vendor"    -> {"Termination"}                               \* end
      [] w = "liability" -> {"Risk and Liability"}
      [] w = "shipment"  -> {"Delivery Terms", "Intellectual Property"}   \* ship, ip
      [] OTHER           -> {}

TextHits(text) == UNION {WordHits(text[i]) : i \in 1..Len(text)}

\* Mutant: the last test that hits decides.
FirstHit_LastWins(hits) ==
    LET found == {k \in 1..Len(ClauseTypeOrder) : ClauseTypeOrder[k] \in hits}
    IN  IF found = {} THEN "General Terms"
        ELSE ClauseTypeOrder[CHOOSE k \in found : \A m \in found : k >= m]

\* The first type, in the order of the tests, among the types hit
FirstHit(hits) ==
    LET found == {k \in 1..Len(ClauseTypeOrder) : ClauseTypeOrder[k] \in hits}
    IN  IF found = {} THEN "General Terms"
        ELSE ClauseTypeOrder[CHOOSE k \in found : \A m \in found : k <= m]

classifyClauseType(text) == FirstHit(TextHits(text))

----------------------------------------------------------------------------
(* natural.TfIdf as used by the scorers *)

\* 1000 * (1 + ln(N / (1 + df))), natural's idf for a corpus of N documents
\* of which df contain the term.
Idf(N, df) ==
    CASE N = 1 -> <<1000, 307>>[df + 1]
      [] N = 2 -> <<1693, 1000, 595>>[df + 1]
      [] N = 3 -> <<2099, 1405, 1000, 712>>[df + 1]
      [] N = 4 -> <<2386, 1693, 1288, 1000, 777>>[df + 1]
      [] N = 5 -> <<2609, 1916, 1511, 1223, 1000, 818>>[df + 1]
      [] N = 6 -> <<2792, 2099, 1693, 1405, 1182, 1000, 846>>[df + 1]

\* buildDocument: term counts of the text, stop words dropped
tf(term, text) ==
    IF term \in StopWords THEN 0
    ELSE Cardinality({i \in 1..Len(text) : text[i] = term})

\* tfidf.tfidfs(term)[d] over the corpus docs (a sequence of texts)
tfidfs(term, docs, d) ==
    LET df == Cardinality({i \in 1..Len(docs) : tf(term, docs[i]) > 0})
    IN  tf(term, docs[d]) * Idf(Len(docs), df)

\* new Set(text.toLowerCase().split(/\W+/))
Terms(text) == Range(text)

\* Mutant: every term of the union is summed, shared or not.
OverlapScore_Union(terms, docs) ==
    LET mins == [t \in terms |-> Min(tfidfs(t, docs, 1), tfidfs(t, docs, 2))]
        maxs == [t \in terms |-> Max(tfidfs(t, docs, 1), tfidfs(t, docs, 2))]
        similarity  == SumOver(terms, mins)
        totalWeight == SumOver(terms, maxs)
    IN  IF totalWeight > 0 THEN <<similarity, totalWeight>> ELSE <<0, 1>>

\* Mutant: the maxima are summed into similarity and the minima into totalWeight.
OverlapScore_Swapped(terms, docs) ==
    LET both == {t \in terms : tfidfs(t, docs, 1) > 0 /\ tfidfs(t, docs, 2) > 0}
        mins == [t \in both |-> Min(tfidfs(t, docs, 1), tfidfs(t, docs, 2))]
        maxs == [t \in both |-> Max(tfidfs(t, docs, 1), tfidfs(t, docs, 2))]
        similarity  == SumOver(both, maxs)
        totalWeight == SumOver(both, mins)
    IN  IF totalWeight > 0 THEN <<similarity, totalWeight>> ELSE <<0, 1>>

\* Mutant: totalWeight sums both weights of a term.
OverlapScore_SumWeights(terms, docs) ==
    LET both == {t \in terms : tfidfs(t, docs, 1) > 0 /\ tfidfs(t, docs, 2) > 0}
        mins == [t \in both |-> Min(tfidfs(t, docs, 1), tfidfs(t, docs, 2))]
        sums == [t \in both |-> tfidfs(t, docs, 1) + tfidfs(t, docs, 2)]
        similarity  == SumOver(both, mins)
        totalWeight == SumOver(both, sums)
    IN  IF totalWeight > 0 THEN <<similarity, totalWeight>> ELSE <<0, 1>>

\* The loop over the union of the two term sets: the quotient of the sum of
\* the minima by the sum of the maxima of scores[0] and scores[1].
OverlapScore(terms, docs) ==
    LET both == {t \in terms : tfidfs(t, docs, 1) > 0 /\ tfidfs(t, docs, 2) > 0}
        mins == [t \in both |-> Min(tfidfs(t, docs, 1), tfidfs(t, docs, 2))]
        maxs == [t \in both |-> Max(tfidfs(t, docs, 1), tfidfs(t, docs, 2))]
        similarity  == SumOver(both, mins)
        totalWeight == SumOver(both, maxs)
    IN  IF totalWeight > 0 THEN <<similarity, totalWeight>> ELSE <<0, 1>>

\* ai-service.ts calculateSemanticSimilarity: a corpus of exactly two texts
calculateSemanticSimilarity(text1, text2) ==
    OverlapScore(Terms(text1) \cup Terms(text2), <<text1, text2>>)

\* A score <<similarity, totalWeight>> stands for the number the division
\* similarity / totalWeight gives in double arithmetic.  Two divisions with
\* different exact quotients give numbers in the order of the quotients.  Two
\* divisions with the same exact quotient need not give the same number: the
\* sum 3 * idf is rounded, and w / (3 * w) and (2 * w) / (3 * w) are the
\* doubles nearest to 1/3 and 2/3 (0.3333333333333333, 0.6666666666666666)
\* for some weights w and the next doubles above (0.33333333333333337,
\* 0.6666666666666667) for others.  The idf weights of a term that two or
\* more of up to six documents hold, by what the divisions give:
ThirdsNearest == {595, 777, 846, 1000, 1223, 1288, 1511, 1693}
ThirdsAbove == {712, 818, 1182, 1405}

\* The score is w / (3 * w) or (2 * w) / (3 * w)
IsThirds(a) == a[2] % 3 = 0 /\ a[1] \in {a[2] \div 3, 2 * (a[2] \div 3)}

\* By how many doubles the number lies above the double nearest to the
\* exact quotient
Rounding(a) == IF IsThirds(a) /\ (a[2] \div 3) \in ThirdsAbove THEN 1 ELSE 0

\* The divisions whose number is known: the quotients 0, 1 and 1/2, which
\* are exact on texts of up to three words, and the thirds of the weights above
Known(a) ==
    \/ a[1] = 0
    \/ a[1] = a[2]
    \/ 2 * a[1] = a[2]
    \/ IsThirds(a) /\ (a[2] \div 3) \in ThirdsNearest \cup ThirdsAbove

\* a > b, a >= b and a = b on the numbers
ScoreGT(a, b) ==
    \/ a[1] * b[2] > b[1] * a[2]
    \/ a[1] * b[2] = b[1] * a[2] /\ Rounding(a) > Rounding(b)
ScoreGE(a, b) ==
    \/ a[1] * b[2] > b[1] * a[2]
    \/ a[1] * b[2] = b[1] * a[2] /\ Rounding(a) >= Rounding(b)
ScoreEQ(a, b) == a[1] * b[2] = b[1] * a[2] /\ Rounding(a) = Rounding(b)

\* The values normalizedSimilarity > bestMatch.similarity can have: the one
\* of the numbers; either when the exact quotients are the same and the
\* number of one of the divisions is not known.
GreaterOutcomes(a, b) ==
    IF a[1] * b[2] # b[1] * a[2] \/ a = b \/ (Known(a) /\ Known(b))
    THEN {ScoreGT(a, b)}
    ELSE BOOLEAN

----------------------------------------------------------------------------
(* Clauses: the Clause interface of pdf-parser.ts.  type "" is an absent type *)

Clause(title, content, type) ==
    [sectionTitle |-> title, content |-> content, type |-> type]

\* What parsePDF builds from a section: the type is classified from the content.
ParsedClause(title, content) == Clause(title, content, classifyClauseType(content))

ClausePool ==
    { ParsedClause("Payment", <<"payment", "days">>),
      ParsedClause("Fees",    <<"payment", "days", "days">>),
      Clause("Notices", <<"the", "days">>, "") }

----------------------------------------------------------------------------
(* pdf-parser.ts groupClausesByType, over the resolved types of a list *)

\* clause.type || classifyClauseType(clause.content)
typed(clause) ==
    [clause EXCEPT !.type = IF clause.type # "" THEN clause.type
                            ELSE classifyClauseType(clause.content)]

typedList(clauses) == [i \in 1..Len(clauses) |-> typed(clauses[i])]

\* clause.type || 'General Terms'
groupType(clause) == IF clause.type # "" THEN clause.type ELSE "General Terms"

\* Object.keys(groups): the types in order of first appearance
RECURSIVE GroupKeys(_, _)
GroupKeys(clauses, i) ==
    IF i > Len(clauses) THEN <<>>
    ELSE LET seen == {groupType(clauses[j]) : j \in 1..(i - 1)}
         IN  (IF groupType(clauses[i]) \in seen THEN <<>>
              ELSE <<groupType(clauses[i])>>) \o GroupKeys(clauses, i + 1)

\* groups[type]: the indices of the clauses of that type, in list order
RECURSIVE GroupOf(_, _, _)
GroupOf(clauses, type, i) ==
    IF i > Len(clauses) THEN <<>>
    ELSE (IF groupType(clauses[i]) = type THEN <<i>> ELSE <<>>)
         \o GroupOf(clauses, type, i + 1)

groupClausesByType(clauses) ==
    [keys   |-> GroupKeys(clauses, 1),
     groups |-> [t \in Range(GroupKeys(clauses, 1)) |-> GroupOf(clauses, t, 1)]]

\* clausesByType[type] || []
GroupOrEmpty(byType, type) ==
    IF type \in DOMAIN byType.groups THEN byType.groups[type] ELSE <<>>

----------------------------------------------------------------------------
(* pdf-parser.ts findBestMatchWithEmbeddings *)

\* The corpus after the k-th vendor clause of the group was added: the client
\* text, then the texts of the first k vendor clauses of the group.
Corpus(clientText, vendors, group, k) ==
    <<clientText>> \o [j \in 1..k |-> vendors[group[j]].content]

\* normalizedSimilarity of the k-th iteration of the loop over the group
LoopScore(clientText, vendors, group, k) ==
    OverlapScore(Terms(clientText) \cup Terms(vendors[group[k]].content),
                 Corpus(clientText, vendors, group, k))

\* The loop from its k-th iteration on; best is the bestMatch so far.  The
\* value is the set of the records the loop can end with, one for each way
\* the comparisons normalizedSimilarity > bestMatch.similarity can go.
RECURSIVE BestFrom(_, _, _, _, _)
BestFrom(clientText, vendors, group, k, best) ==
    IF k > Len(group) THEN {best}
    ELSE UNION { BestFrom(clientText, vendors, group, k + 1,
                          IF greater THEN [clause |-> group[k], similarity |-> s]
                          ELSE best) :
                   s \in {LoopScore(clientText, vendors, group, k)},
                   greater \in GreaterOutcomes(LoopScore(clientText, vendors, group, k),
                                               best.similarity) }

\* The records the function can return; clause is the index of the chosen
\* vendor clause in the vendor list
findBestMatchWithEmbeddings(clientText, vendors, group) ==
    BestFrom(clientText, vendors, group, 1,
             [clause |-> group[1], similarity |-> <<0, 1>>])

\* No call of findBestMatchWithEmbeddings has returned in the iteration
NoMatch == [clause |-> 0, similarity |-> <<0, 1>>]

----------------------------------------------------------------------------
(* pdf-parser.ts analyzeClauseDifferences and determineStatusAndRisk *)

\* What the GPT call can come to: a parsed answer whose summary has a
\* high-risk word, one whose summary has a medium-risk word only, one whose
\* summary has no risk word, one without the two fields, one whose summary
\* is a number, or a failure (network error, no content, bad JSON).
GptOutcomes == {"significant", "risk", "plain", "nofields", "numsummary", "error"}

\* A summary that is not a string: the number 123 of the answer
NumberSummary == "123 (number)"

IsString(summary) == summary # NumberSummary

analyzeClauseDifferences(outcome) ==
    CASE outcome = "significant" ->
           [summary |-> "Significant gap and risk for the client.",
            recommendation |-> "Align the periods."]
      [] outcome = "risk" ->
           [summary |-> "Some risk for the client.",
            recommendation |-> "Align the periods."]
      [] outcome = "plain" ->
           [summary |-> "The periods differ.",
            recommendation |-> "Treat this as a critical issue."]
      [] outcome = "nofields" ->
           [summary |-> "Unable to generate summary.",
            recommendation |-> "Please review the clauses manually."]
      [] outcome = "numsummary" ->
           [summary |-> NumberSummary,
            recommendation |-> "Align the periods."]
      [] outcome = "error" ->
           [summary |-> "Unable to generate detailed analysis.",
            recommendation |-> "Please review the clauses manually for differences."]

\* summary.toLowerCase().includes(one of the words): the summaries that hold
\* one of critical, significant, major, severe, and those that hold one of
\* risk, concern, issue.
HasHighWord(summary) ==
    summary \in {"Significant gap and risk for the client.", "CRITICAL deviation."}
HasMediumWord(summary) ==
    summary \in {"Significant gap and risk for the client.", "Some risk for the client.",
                 "Minor concern."}

\* Mutant: the bounds are exclusive.
statusOf_Exclusive(similarity) ==
    IF ScoreGT(similarity, <<85, 100>>) THEN "Aligned"
    ELSE IF ScoreGT(similarity, <<65, 100>>) THEN "Partial"
    ELSE "Non-Compliant"

statusOf(similarity) ==
    IF ScoreGE(similarity, <<85, 100>>) THEN "Aligned"
    ELSE IF ScoreGE(similarity, <<65, 100>>) THEN "Partial"
    ELSE "Non-Compliant"

\* Mutant: the risk words are looked for whatever the status.
determineStatusAndRisk_AnyStatus(similarity, analysis) ==
    LET status == statusOf(similarity)
    IN  [status |-> status,
         risk   |-> IF status = "Non-Compliant" THEN "high"
                    ELSE IF HasHighWord(analysis.summary) THEN "high"
                    ELSE IF HasMediumWord(analysis.summary) THEN "medium"
                    ELSE "low"]

\* analysis.summary.toLowerCase is not a function
TypeErrorThrown == [status |-> "TypeError", risk |-> ""]

\* The summary is read, and lower-cased, for a Partial status only.
determineStatusAndRisk(similarity, analysis) ==
    LET status == statusOf(similarity)
    IN  IF status = "Partial" /\ ~IsString(analysis.summary) THEN TypeErrorThrown
        ELSE [status |-> status,
              risk   |-> IF status = "Non-Compliant" THEN "high"
                         ELSE IF status = "Partial"
                         THEN (IF HasHighWord(analysis.summary) THEN "high"
                               ELSE IF HasMediumWord(analysis.summary) THEN "medium"
                               ELSE "low")
                         ELSE "low"]

----------------------------------------------------------------------------
(* pdf-parser.ts: extractTextFromPDF, splitIntoSections, parsePDF *)

\* The text of a document is a sequence of lines (the lines joined by '\n'); a
\* line is a sequence of tokens (the tokens joined by single spaces) and <<>>
\* is the empty line.  The tokens are section markers, capitalised words and
\* lower-case words; no word begins with i, v or x.

Capitalised == {"Payment", "Delivery", "Notices"}

\* toLowerCase on a token
Lower(w) ==
    CASE w = "Payment"  -> "payment"
      [] w = "Delivery" -> "delivery"
      [] w = "Notices"  -> "notices"
      [] w = "A."       -> "a."
      [] w = "A.1"      -> "a.1"
      [] OTHER          -> w

LowerText(words) == [i \in 1..Len(words) |-> Lower(words[i])]

\* The tokens of a sequence of lines, in order
RECURSIVE Flatten(_)
Flatten(lines) ==
    IF lines = <<>> THEN <<>> ELSE Head(lines) \o Flatten(Tail(lines))

\* line.match(sectionPatterns[p]): what the p-th pattern matches at the start
\* of a line that begins with the token tok, "" where it does not match.
PatternMatch(p, tok) ==
    CASE p = 1 /\ tok \in {"1.", "2."} -> tok       \* /^\d+\./
      [] p = 1 /\ tok = "1.1"          -> "1."
      [] p = 2 /\ tok = "1.1"          -> "1.1"     \* /^\d+\.\d+/
      [] p = 4 /\ tok \in {"A.", "A.1"} -> "A."      \* /^[A-Z]\./
      [] p = 5 /\ tok = "A.1"          -> "A.1"     \* /^[A-Z]\.\d+/
      [] p = 6 /\ tok = "(a)"          -> "(a)"     \* /^\([a-z]\)/
      [] OTHER                         -> ""

\* The loop over sectionPatterns: the match of the first pattern that matches
sectionMatch(line) ==
    IF line = <<>> THEN ""
    ELSE LET found == {p \in 1..8 : PatternMatch(p, line[1]) # ""}
         IN  IF found = {} THEN ""
             ELSE PatternMatch(CHOOSE p \in found : \A q \in found : p <= q, line[1])

\* extractSectionTitle on a heading line.  The leading digits, dots, blanks and
\* parentheses are stripped; what is left is the title if it begins with a
\* capital letter.  Otherwise no title pattern matches the line, which begins
\* with a digit or a parenthesis, and the title is the whole line.
extractSectionTitle(line) ==
    LET afterNumber == IF line[1] \in {"1.", "2.", "1.1"} THEN Tail(line) ELSE line
    IN  IF line[1] \in {"A.", "A.1"} THEN line
        ELSE IF afterNumber # <<>> /\ afterNumber[1] \in Capitalised THEN afterNumber
        ELSE line

\* A section; its content is the sequence of its lines.
Section(number, title, content) ==
    [number |-> number, title |-> title, content |-> content]

\* currentSection = null
NoSection == Section("", <<>>, <<>>)

\* Mutant: the content of a new section starts empty, without its heading line.
SectionStep_BodyOnly(acc, line) ==
    IF sectionMatch(line) # ""
    THEN [sections       |-> IF acc.currentSection # NoSection
                             THEN Append(acc.sections, acc.currentSection)
                             ELSE acc.sections,
          currentSection |-> Section(sectionMatch(line), extractSectionTitle(line), <<>>)]
    ELSE IF acc.currentSection # NoSection
    THEN [acc EXCEPT !.currentSection.content = Append(@, line)]
    ELSE acc

\* Mutant: a heading line is appended to the section in progress.
SectionStep_KeepsFirst(acc, line) ==
    IF sectionMatch(line) # "" /\ acc.currentSection = NoSection
    THEN [sections       |-> acc.sections,
          currentSection |-> Section(sectionMatch(line), extractSectionTitle(line), <<line>>)]
    ELSE IF acc.currentSection # NoSection
    THEN [acc EXCEPT !.currentSection.content = Append(@, line)]
    ELSE acc

SectionStep(acc, line) ==
    IF sectionMatch(line) # ""
    THEN [sections       |-> IF acc.currentSection # NoSection
                             THEN Append(acc.sections, acc.currentSection)
                             ELSE acc.sections,
          currentSection |-> Section(sectionMatch(line), extractSectionTitle(line), <<line>>)]
    ELSE IF acc.currentSection # NoSection
    THEN [acc EXCEPT !.currentSection.content = Append(@, line)]
    ELSE acc

\* After the loop: the section in progress is pushed
SectionFlush(acc) ==
    IF acc.currentSection # NoSection
    THEN Append(acc.sections, acc.currentSection)
    ELSE acc.sections

\* The loop from its i-th line on
RECURSIVE SectionLoop(_, _, _)
SectionLoop(acc, lines, i) ==
    IF i > Len(lines) THEN acc
    ELSE CHOOSE r \in {SectionLoop(next, lines, i + 1) :
                         next \in {SectionStep(acc, lines[i])}} : TRUE

splitIntoSections(text) ==
    SectionFlush(SectionLoop([sections |-> <<>>, currentSection |-> NoSection], text, 1))

NoTextError ==
    "No readable text found in the PDF. Please ensure the PDF contains selectable text."
NoSectionsError ==
    "No sections found in the PDF. Please ensure the PDF contains numbered sections."

\* !data.text || data.text.trim().length === 0
IsBlank(text) == \A i \in 1..Len(text) : text[i] = <<>>

\* Mutant: only a missing text is refused.
extractTextFromPDF_MissingOnly(data) ==
    IF data = <<>> THEN [error |-> NoTextError, text |-> <<>>]
    ELSE [error |-> "", text |-> data]

\* error is the message of the error thrown, "" if the text is returned
extractTextFromPDF(data) ==
    IF IsBlank(data) THEN [error |-> NoTextError, text |-> <<>>]
    ELSE [error |-> "", text |-> data]

\* Mutant: the content of a clause is the section's content after its first line.
SectionClause_Body(section) ==
    CHOOSE clause \in {ParsedClause(section.title, content) :
                         content \in {LowerText(Flatten(Tail(section.content)))}} : TRUE

\* sections.map(...): the clause of a section.  The content is given as the
\* classifier and the scorers read it: the lower-case tokens of its lines.
SectionClause(section) ==
    CHOOSE clause \in {ParsedClause(section.title, content) :
                         content \in {LowerText(Flatten(section.content))}} : TRUE

SectionClauses(secs) == [i \in 1..Len(secs) |-> SectionClause(secs[i])]

\* Mutant: the clause list is returned whatever its length.
parsePDF_ReturnsEmpty(data) ==
    LET extracted == extractTextFromPDF(data)
    IN  IF extracted.error # "" THEN [error |-> extracted.error, clauses |-> <<>>]
        ELSE CHOOSE parsed \in
               {[error |-> "", clauses |-> SectionClauses(secs)] :
                    secs \in {splitIntoSections(extracted.text)}} : TRUE

\* error is the message of the error parsePDF rethrows, "" if it returns clauses
parsePDF(data) ==
    LET extracted == extractTextFromPDF(data)
    IN  IF extracted.error # "" THEN [error |-> extracted.error, clauses |-> <<>>]
        ELSE CHOOSE parsed \in
               {IF Len(secs) = 0 THEN [error |-> NoSectionsError, clauses |-> <<>>]
                ELSE [error |-> "", clauses |-> SectionClauses(secs)] :
                    secs \in {splitIntoSections(extracted.text)}} : TRUE

----------------------------------------------------------------------------
(* app/api/compare/route.ts: normalizeClauseType and the key clauses *)

KEY_CLAUSE_TYPES ==
    <<"Termination", "Delivery Terms", "Payment Terms",
      "Confidentiality and IP", "Limitation of Liability">>

KeyIdx == 1..Len(KEY_CLAUSE_TYPES)

\* The reporting types whose pattern matches inside the word w
KeyWordHits(w) ==
    CASE w = "terminate" -> {"Termination"}
      [] w = "delivery"  -> {"Delivery Terms"}
      [] w = "payment"   -> {"Payment Terms"}
      [] w = "invoice"   -> {"Payment Terms"}
      [] w = "liability" -> {"Limitation of Liability"}
      [] w = "shipment"  -> {"Delivery Terms", "Confidentiality and IP"}   \* ship, ip
      [] OTHER           -> {}

\* The reporting types whose pattern matches inside the name of a general type
KeyTypeHits(type) ==
    CASE type = "Termination"           -> {"Termination"}
      [] type = "Delivery Terms"        -> {"Delivery Terms"}
      [] type = "Payment Terms"         -> {"Payment Terms"}
      [] type = "Confidentiality"       -> {"Confidentiality and IP"}
      [] type = "Intellectual Property" -> {"Confidentiality and IP"}
      [] type = "Risk and Liability"    -> {"Limitation of Liability"}
      [] OTHER                          -> {}

FirstKeyHit(hits) ==
    LET found == {k \in 1..Len(KEY_CLAUSE_TYPES) : KEY_CLAUSE_TYPES[k] \in hits}
    IN  IF found = {} THEN ""
        ELSE KEY_CLAUSE_TYPES[CHOOSE k \in found : \A m \in found : k <= m]

\* The patterns are tried in the order of KEY_CLAUSE_TYPES on type + ' ' + content.
normalizeClauseType(type, content) ==
    FirstKeyHit(KeyTypeHits(type) \cup UNION {KeyWordHits(content[i]) : i \in 1..Len(content)})

\* The contents of the clauses that normalise to clauseType, in list order: the
\* text is these joined by blank lines, and is '' when there is none.
RECURSIVE extractFullClause(_, _, _)
extractFullClause(clauses, clauseType, i) ==
    IF i > Len(clauses) THEN <<>>
    ELSE (IF normalizeClauseType(clauses[i].type, clauses[i].content) = clauseType
          THEN <<clauses[i].content>> ELSE <<>>)
         \o extractFullClause(clauses, clauseType, i + 1)

getKeyClauses(clauses) ==
    [k \in KeyIdx |-> [clauseType |-> KEY_CLAUSE_TYPES[k],
                       text |-> extractFullClause(clauses, KEY_CLAUSE_TYPES[k], 1)]]

----------------------------------------------------------------------------
(* lib/ai-mistral.ts and lib/ai-openai.ts *)

\* How a request to the model provider can end.
\*   ok        an answer whose content parses to the JSON object asked for
\*   norisk    an answer whose content parses to an object without the field risk
\*   nofields  an answer whose content parses to a value with none of the three
\*             fields ({}, [], 123)
\*   neterror  the HTTP call throws
\*   empty     an answer without content
\*   badjson   an answer whose content JSON.parse rejects
\*   timeout   the OpenAI client gave up waiting (the SDK's own request timeout)
CallEnds == {"ok", "norisk", "nofields", "neterror", "empty", "badjson"}
ParsedEnds == {"ok", "norisk", "nofields"}
FailedEnds == {"neterror", "empty", "badjson", "timeout"}

FallbackTriple ==
    [summary        |-> <<"Unable to generate summary.">>,
     risk           |-> "UNKNOWN",
     recommendation |-> <<"Unable to generate recommendation.">>]

InvalidResponseTriple ==
    [summary        |-> <<"Unable to generate summary due to invalid AI response.">>,
     risk           |-> "UNKNOWN",
     recommendation |-> <<"Unable to generate recommendation due to invalid AI response.">>]

\* The answer of the provider to the prompt for one clause type
ProviderAnswer(clauseType) ==
    [summary        |-> <<"summary for", clauseType>>,
     risk           |-> "HIGH",
     recommendation |-> <<"recommendation for", clauseType>>]

\* result.summary || '', result.risk || '', result.recommendation || '' on an
\* answer that parsed: every field the answer holds, the empty string for a
\* field it does not hold
EmptyTriple == [summary |-> <<"">>, risk |-> "", recommendation |-> <<"">>]

AnswerTriple(clauseType, end) ==
    CASE end = "ok"       -> ProviderAnswer(clauseType)
      [] end = "norisk"   -> [ProviderAnswer(clauseType) EXCEPT !.risk = ""]
      [] end = "nofields" -> EmptyTriple

\* A promise that rejected
Rejected == [summary |-> <<"rejected">>, risk |-> "", recommendation |-> <<>>]

\* Mutant: the catch block rethrows.
compareClausesWithMistral_Rethrow(clauseType, end) ==
    CASE end \in ParsedEnds -> AnswerTriple(clauseType, end)
      [] end = "badjson"    -> InvalidResponseTriple
      [] OTHER              -> Rejected

compareClausesWithMistral(clauseType, end) ==
    CASE end \in ParsedEnds -> AnswerTriple(clauseType, end)
      [] end = "badjson"    -> InvalidResponseTriple
      [] OTHER              -> FallbackTriple

compareClausesWithOpenAI(clauseType, end) ==
    CASE end \in ParsedEnds -> AnswerTriple(clauseType, end)
      [] OTHER              -> FallbackTriple

----------------------------------------------------------------------------
(* app/api/compare/route.ts POST *)

Entry(clauseType, triple, clientText, vendorText) ==
    [clauseType     |-> clauseType,
     summary        |-> triple.summary,
     risk           |-> triple.risk,
     recommendation |-> triple.recommendation,
     clientClause   |-> clientText,
     vendorClause   |-> vendorText]

NotFoundTriple ==
    [summary        |-> <<"Clause not found in one or both contracts.">>,
     risk           |-> "UNKNOWN",
     recommendation |-> <<"No recommendation available.">>]

ClientKey(k) == getKeyClauses(clientClauses)[k]
VendorKey(k) == getKeyClauses(vendorClauses)[k]

\* Mutant: one of the two texts is enough for the call.
BothFound_Either(k) == ClientKey(k).text # <<>> \/ VendorKey(k).text # <<>>

\* clientClause.text && vendorClause.text
BothFound(k) == ClientKey(k).text # <<>> /\ VendorKey(k).text # <<>>

NoResponse == [status |-> 0, error |-> "", aiComparisonResults |-> <<>>]

\* The response of the catch around the two parsePDF calls
ParseErrorResponse ==
    [status |-> 500, error |-> "Failed to parse one or both PDF files",
     aiComparisonResults |-> <<>>]

\* A value that was thrown: an Error with its message, or any other value
ThrownError(message) == [isError |-> TRUE, message |-> message]
ThrownValue == [isError |-> FALSE, message |-> ""]

\* The response of the outer catch: the message of the Error caught, a fixed
\* text when the value caught is not an Error
ErrorResponse(error) ==
    [status |-> 500,
     error |-> IF error.isError THEN error.message ELSE "An unexpected error occurred",
     aiComparisonResults |-> <<>>]

\* The responses of the checks made before parsing
MissingFilesResponse ==
    [status |-> 400, error |-> "Both client and vendor files are required",
     aiComparisonResults |-> <<>>]

NotPdfResponse ==
    [status |-> 400, error |-> "Only PDF files are supported",
     aiComparisonResults |-> <<>>]

UnreadableResponse ==
    [status |-> 500, error |-> "Failed to read uploaded files",
     aiComparisonResults |-> <<>>]

\* What a callback of Promise.all rejects with when a provider call throws
CallError == ThrownError("Network Error")

\* A file name is its stem and its extension; NoFile is a field that is absent.
NoFile == <<>>

\* toLowerCase on the extensions that occur
toLowerCase(ext) == IF ext = ".PDF" THEN ".pdf" ELSE ext

\* file.name.toLowerCase().endsWith('.pdf')
IsPdfName(name) == toLowerCase(name[2]) = ".pdf"

NoRequest ==
    [formData |-> "none", thrown |-> ThrownValue, clientFile |-> NoFile,
     vendorFile |-> NoFile, clientReadable |-> FALSE, vendorReadable |-> FALSE]

\* A request whose form data holds the two files, each read without an error
UploadRequest(clientName, vendorName) ==
    [formData |-> "resolves", thrown |-> ThrownValue, clientFile |-> clientName,
     vendorFile |-> vendorName, clientReadable |-> TRUE, vendorReadable |-> TRUE]

\* The requests the handler receives: an upload under names with the
\* extension in either case, form data that cannot be read (formData()
\* rejects with an Error or with another value), an absent file, a file that
\* is not a PDF, and an upload of which the client file's bytes, or the
\* vendor file's bytes, cannot be read.
RequestPool ==
    { UploadRequest(<<"client", ".pdf">>, <<"vendor", ".PDF">>),
      [NoRequest EXCEPT !.formData = "rejects", !.thrown = ThrownError("boom")],
      [NoRequest EXCEPT !.formData = "rejects", !.thrown = ThrownValue],
      UploadRequest(<<"client", ".pdf">>, NoFile),
      UploadRequest(<<"client", ".pdf">>, <<"vendor", ".txt">>),
      [UploadRequest(<<"client", ".pdf">>, <<"vendor", ".pdf">>)
          EXCEPT !.clientReadable = FALSE],
      [UploadRequest(<<"client", ".pdf">>, <<"vendor", ".pdf">>)
          EXCEPT !.vendorReadable = FALSE] }

\* The handler once request.formData() has settled, up to the check of the
\* file names: the response it returns, NoResponse when it goes on to read
\* the files.  formData() resolves to a FormData object or rejects, so no
\* request of RequestPool has form data that is absent.
FormChecked(req) ==
    IF req.formData = "rejects" THEN ErrorResponse(req.thrown)
    ELSE IF req.formData = "absent"
         THEN [status |-> 400, error |-> "No form data received",
               aiComparisonResults |-> <<>>]
    ELSE IF req.clientFile = NoFile \/ req.vendorFile = NoFile THEN MissingFilesResponse
    ELSE IF ~IsPdfName(req.clientFile) \/ ~IsPdfName(req.vendorFile) THEN NotPdfResponse
    ELSE NoResponse

\* Mutant: the values come in the order in which the callbacks settled.
PromiseAll_SettleOrder(values, settled) ==
    [k \in 1..Len(settled) |-> values[settled[k]]]

\* Promise.all: the values in the order of the array that was mapped.
PromiseAll(values, settled) == [k \in 1..Len(settled) |-> values[k]]

----------------------------------------------------------------------------
(* pdf-parser.ts compareClauses *)

\* allTypes: the client's keys, then the vendor's keys not among them
RECURSIVE NewKeys(_, _, _)
NewKeys(keys, old, i) ==
    IF i > Len(keys) THEN <<>>
    ELSE (IF keys[i] \in old THEN <<>> ELSE <<keys[i]>>) \o NewKeys(keys, old, i + 1)

\* Mutant: only the types the vendor has are visited.
allTypes_VendorOnly(clientByType, vendorByType) == vendorByType.keys

allTypes(clientByType, vendorByType) ==
    clientByType.keys \o NewKeys(vendorByType.keys, Range(clientByType.keys), 1)

\* The client clauses in the order the two nested loops reach them.
RECURSIVE LoopOrder(_, _, _)
LoopOrder(types, clientByType, k) ==
    IF k > Len(types) THEN <<>>
    ELSE GroupOrEmpty(clientByType, types[k]) \o LoopOrder(types, clientByType, k + 1)

IterationOrder(client, vendor) ==
    LET clientByType == groupClausesByType(typedList(client))
        vendorByType == groupClausesByType(typedList(vendor))
    IN  LoopOrder(allTypes(clientByType, vendorByType), clientByType, 1)

\* Mutant: the vendor group is the whole vendor list, whatever the type.
vendorTypeClauses_AnyType(vendor, type) == [j \in 1..Len(vendor) |-> j]

\* vendorClausesByType[type] || []
vendorTypeClauses(vendor, type) ==
    GroupOrEmpty(groupClausesByType(typedList(vendor)), type)

Undefined == <<>>

\* Mutant: a Missing result that shows the first vendor clause with score 0.
MissingResult_Scored(clientClause, type) ==
    [clauseTitle     |-> clientClause.sectionTitle,
     clientClause    |-> clientClause.content,
     vendorClause    |-> <<>>,
     status          |-> "Missing",
     clauseType      |-> type,
     similarityScore |-> <<0, 1>>,
     risk            |-> "high",
     summary         |-> <<"Missing clause in vendor contract", type>>,
     recommendation  |-> <<"Request vendor to add a clause", type>>,
     suggestedFix    |-> <<"Add", type, clientClause.sectionTitle>>]

MissingResult(clientClause, type) ==
    [clauseTitle     |-> clientClause.sectionTitle,
     clientClause    |-> clientClause.content,
     vendorClause    |-> <<>>,
     status          |-> "Missing",
     clauseType      |-> type,
     similarityScore |-> Undefined,
     risk            |-> "high",
     summary         |-> <<"Missing clause in vendor contract", type>>,
     recommendation  |-> <<"Request vendor to add a clause", type>>,
     suggestedFix    |-> <<"Add", type, clientClause.sectionTitle>>]

\* Mutant: every matched result carries the review template.
MatchedResult_AlwaysFix(clientClause, type, match, vendor, analysis) ==
    LET sr == determineStatusAndRisk(match.similarity, analysis)
    IN  [clauseTitle     |-> clientClause.sectionTitle,
         clientClause    |-> clientClause.content,
         vendorClause    |-> vendor[match.clause].content,
         status          |-> sr.status,
         clauseType      |-> type,
         similarityScore |-> match.similarity,
         risk            |-> sr.risk,
         summary         |-> <<analysis.summary>>,
         recommendation  |-> <<analysis.recommendation>>,
         suggestedFix    |-> <<"Review and align", type, clientClause.sectionTitle>>]

MatchedResult(clientClause, type, match, vendor, analysis) ==
    LET sr == determineStatusAndRisk(match.similarity, analysis)
    IN  [clauseTitle     |-> clientClause.sectionTitle,
         clientClause    |-> clientClause.content,
         vendorClause    |-> vendor[match.clause].content,
         status          |-> sr.status,
         clauseType      |-> type,
         similarityScore |-> match.similarity,
         risk            |-> sr.risk,
         summary         |-> <<analysis.summary>>,
         recommendation  |-> <<analysis.recommendation>>,
         suggestedFix    |-> IF sr.status = "Aligned" THEN Undefined
                             ELSE <<"Review and align", type, clientClause.sectionTitle>>]

\* An iteration for a client clause whose type the vendor does not have.
CompareMissing ==
    /\ phase = "comparing"
    /\ pos < Len(order)
    /\ bestMatch = NoMatch
    /\ \E c \in {typed(clientClauses[order[pos + 1]])} :
         /\ Len(vendorTypeClauses(vendorClauses, c.type)) = 0
         /\ results' = Append(results, MissingResult(c, c.type))
    /\ gpt' = Append(gpt, "")
    /\ pos' = pos + 1
    /\ UNCHANGED <<docVars, segVars, scorerVars, restVars>>
    /\ UNCHANGED <<bestMatch, clientClauses, vendorClauses, order, scored, phase,
                   model, calls, aiRes, completed, response>>

\* An iteration for a client clause whose type the vendor has, to the await
\* of analyzeClauseDifferences: the match is found and the request is sent.
CompareScored ==
    /\ phase = "comparing"
    /\ pos < Len(order)
    /\ bestMatch = NoMatch
    /\ \E c \in {typed(clientClauses[order[pos + 1]])} :
       \E tv \in {typedList(vendorClauses)} :
       \E vtc \in {vendorTypeClauses(vendorClauses, c.type)} :
         /\ Len(vtc) > 0
         /\ bestMatch' \in findBestMatchWithEmbeddings(c.content, tv, vtc)
         /\ scored' = scored \cup {<<order[pos + 1], vtc[j], LoopScore(c.content, tv, vtc, j)>> :
                                      j \in 1..Len(vtc)}
    /\ UNCHANGED <<docVars, segVars, scorerVars, enhanceVars, singletonVars, uiVars,
                   obligationVars>>
    /\ UNCHANGED <<clientClauses, vendorClauses, results, order, pos, gpt, phase,
                   model, calls, aiRes, completed, response>>

\* The request of the iteration ends: the result is pushed, or
\* determineStatusAndRisk throws and compareClauses rejects.
CompareAnalysed ==
    /\ phase = "comparing"
    /\ bestMatch # NoMatch
    /\ \E c \in {typed(clientClauses[order[pos + 1]])} :
       \E tv \in {typedList(vendorClauses)} :
       \E outcome \in GptOutcomes :
       \E analysis \in {analyzeClauseDifferences(outcome)} :
         IF determineStatusAndRisk(bestMatch.similarity, analysis) = TypeErrorThrown
         THEN /\ phase' = "rejected"
              /\ UNCHANGED <<results, gpt, pos>>
         ELSE /\ results' = Append(results, MatchedResult(c, c.type, bestMatch, tv, analysis))
              /\ gpt' = Append(gpt, outcome)
              /\ pos' = pos + 1
              /\ UNCHANGED phase
    /\ bestMatch' = NoMatch
    /\ UNCHANGED <<docVars, segVars, scorerVars, enhanceVars, singletonVars, uiVars,
                   obligationVars>>
    /\ UNCHANGED <<clientClauses, vendorClauses, order, scored,
                   model, calls, aiRes, completed, response>>

\* The variables of splitIntoSections and of the scorer while neither runs
IdleSplit == lineNo = 0 /\ sections = <<>> /\ currentSection = NoSection
IdleScorer == arg1 = <<>> /\ arg2 = <<>> /\ scores = <<>>
IdleDocs == request = NoRequest /\ clientDoc = <<>> /\ vendorDoc = <<>> /\ parseError = ""
IdleEnhance == apiKey = FALSE /\ enhanced = <<>>
IdleSingletons == pipelines = <<>> /\ built = <<>> /\ callers = <<>>
IdleUI ==
    /\ clientFile = FALSE
    /\ vendorFile = FALSE
    /\ loading = FALSE
    /\ uiError = ""
    /\ progress = 0
    /\ finalizing = FALSE
    /\ shown = <<>>
    /\ timer = "none"
    /\ currentStep = 0
    /\ fetch = "none"
IdleObligations == obligationText = <<>> /\ obligations = <<>> /\ pass = 0

\* The client lists compared: up to MaxClient different sections, and the
\* lists made of one section twice
ClientLists ==
    {cs \in SeqsUpTo(ClausePool, 1, MaxClient) :
        \A i, j \in 1..Len(cs) : i # j => cs[i] # cs[j]}
    \cup {<<p, p>> : p \in ClausePool}

InitCompare ==
    /\ IdleDocs
    /\ IdleSplit
    /\ IdleScorer
    /\ IdleEnhance
    /\ IdleSingletons
    /\ IdleUI
    /\ IdleObligations
    /\ clientClauses \in ClientLists
    /\ vendorClauses \in SeqsUpTo(ClausePool, 1, MaxVendor)
    /\ results = <<>>
    /\ order = IterationOrder(clientClauses, vendorClauses)
    /\ pos = 0
    /\ scored = {}
    /\ gpt = <<>>
    /\ bestMatch = NoMatch
    /\ phase = "comparing"
    /\ model = "mistral"
    /\ calls = [i \in KeyIdx |-> "none"]
    /\ aiRes = [i \in KeyIdx |-> Undefined]
    /\ completed = <<>>
    /\ response = NoResponse

NextCompare == CompareMissing \/ CompareScored \/ CompareAnalysed

SpecCompare == InitCompare /\ [][NextCompare]_vars

----------------------------------------------------------------------------
(* pdf-parser.ts compareClauses: one iteration on a given match and analysis *)

\* The similarities findBestMatchWithEmbeddings can hand over: the hundredths
\* and the values next below the two bounds
ScoreInputs ==
    {<<n, 100>> : n \in 0..100} \cup {<<649999, 1000000>>, <<849999, 1000000>>}

\* The analyses analyzeClauseDifferences can hand over
AnalysisInputs ==
    { [summary |-> "Significant gap and risk for the client.",
       recommendation |-> "Align the periods."],
      [summary |-> "CRITICAL deviation.",
       recommendation |-> "Align the periods."],
      [summary |-> "Minor concern.",
       recommendation |-> "Align the periods."],
      [summary |-> "The periods differ.",
       recommendation |-> "Treat this as a critical issue."],
      [summary |-> "Unable to generate summary.",
       recommendation |-> "Please review the clauses manually."],
      [summary |-> NumberSummary,
       recommendation |-> "Align the periods."],
      [summary |-> "Unable to generate detailed analysis.",
       recommendation |-> "Please review the clauses manually for differences."] }

\* The iteration for the client clause when the vendor has none of its type
ResolveMissing ==
    /\ phase = "resolving"
    /\ \E c \in {typed(clientClauses[1])} :
         /\ Len(vendorTypeClauses(vendorClauses, c.type)) = 0
         /\ results' = <<MissingResult(c, c.type)>>
    /\ gpt' = <<"">>
    /\ pos' = 1
    /\ phase' = "resolved"
    /\ UNCHANGED <<docVars, segVars, scorerVars, restVars>>
    /\ UNCHANGED <<bestMatch, clientClauses, vendorClauses, order, scored,
                   model, calls, aiRes, completed, response>>

\* The iteration for the client clause from the match and the analysis on:
\* the result is pushed, or determineStatusAndRisk throws.
ResolveMatched ==
    /\ phase = "resolving"
    /\ \E c \in {typed(clientClauses[1])} :
       \E similarity \in ScoreInputs :
       \E analysis \in AnalysisInputs :
         /\ Len(vendorTypeClauses(vendorClauses, c.type)) > 0
         /\ IF determineStatusAndRisk(similarity, analysis) = TypeErrorThrown
            THEN /\ phase' = "rejected"
                 /\ UNCHANGED <<results, gpt, pos>>
            ELSE /\ results' = <<MatchedResult(c, c.type,
                                               [clause |-> 1, similarity |-> similarity],
                                               typedList(vendorClauses), analysis)>>
                 /\ gpt' = <<"given">>
                 /\ pos' = 1
                 /\ phase' = "resolved"
    /\ UNCHANGED <<docVars, segVars, scorerVars, restVars>>
    /\ UNCHANGED <<bestMatch, clientClauses, vendorClauses, order, scored,
                   model, calls, aiRes, completed, response>>

InitStatus ==
    /\ IdleDocs
    /\ IdleSplit
    /\ IdleScorer
    /\ IdleEnhance
    /\ IdleSingletons
    /\ IdleUI
    /\ IdleObligations
    /\ clientClauses \in SeqsUpTo(ClausePool, 1, 1)
    /\ vendorClauses \in SeqsUpTo(ClausePool, 1, 1)
    /\ results = <<>>
    /\ order = <<1>>
    /\ pos = 0
    /\ scored = {}
    /\ gpt = <<>>
    /\ bestMatch = NoMatch
    /\ phase = "resolving"
    /\ model = "mistral"
    /\ calls = [i \in KeyIdx |-> "none"]
    /\ aiRes = [i \in KeyIdx |-> Undefined]
    /\ completed = <<>>
    /\ response = NoResponse

NextStatus == ResolveMissing \/ ResolveMatched

SpecStatus == InitStatus /\ [][NextStatus]_vars

\* The iterations of compareClauses, in a run or on a given match
InitResults == InitCompare \/ InitStatus
NextResults == NextCompare \/ NextStatus
SpecResults == InitResults /\ [][NextResults]_vars

----------------------------------------------------------------------------
(* app/api/compare/route.ts POST: the handler's steps *)

\* The sections the uploaded documents are made of
RouteSections ==
    { << <<"1.", "Payment">>,  <<"payment", "days">> >>,
      << <<"2.", "Delivery">>, <<"delivery", "days">> >>,
      << <<"(a)", "Notices">>, <<"the", "days">> >> }

\* The texts pdf-parse can extract from an upload: an empty text, texts
\* without a heading line, and the texts of up to n sections.
RouteDocs(n) ==
    { << <<>> >>, << <<"payment", "days">> >>, << <<>>, <<"the", "days">> >> }
    \cup {Flatten(ss) : ss \in SeqsUpTo(RouteSections, 1, n)}

Settled(k) == calls[k] \in {"notfound", "timeout"} \cup CallEnds

\* The callbacks that return without awaiting, in array order
RECURSIVE NotFoundOrder(_)
NotFoundOrder(k) ==
    IF k > Len(KEY_CLAUSE_TYPES) THEN <<>>
    ELSE (IF BothFound(k) THEN <<>> ELSE <<k>>) \o NotFoundOrder(k + 1)

\* What the callback of key clause k returns when its request ended with end
CallbackValue(k, end) ==
    LET aiResult == IF model = "openai"
                    THEN compareClausesWithOpenAI(KEY_CLAUSE_TYPES[k], end)
                    ELSE compareClausesWithMistral(KEY_CLAUSE_TYPES[k], end)
    IN  IF aiResult = Rejected THEN Rejected
        ELSE Entry(KEY_CLAUSE_TYPES[k], aiResult, ClientKey(k).text, VendorKey(k).text)

\* await request.formData() settles: a rejection goes to the outer catch, the
\* checks on the form data answer at once, and otherwise the handler asks for
\* the bytes of the client file.
PostFormData ==
    /\ phase = "request"
    /\ IF FormChecked(request) = NoResponse
       THEN phase' = "readingClient" /\ UNCHANGED response
       ELSE phase' = "responded" /\ response' = FormChecked(request)
    /\ UNCHANGED <<docVars, segVars, scorerVars, restVars>>
    /\ UNCHANGED <<bestMatch, clientClauses, vendorClauses, results, order, pos, scored, gpt,
                   model, calls, aiRes, completed>>

\* await clientFile.arrayBuffer() settles: a rejection is answered by the
\* catch around the two reads, and the vendor file is not asked for.
PostReadClient ==
    /\ phase = "readingClient"
    /\ IF request.clientReadable
       THEN phase' = "readingVendor" /\ UNCHANGED response
       ELSE phase' = "responded" /\ response' = UnreadableResponse
    /\ UNCHANGED <<docVars, segVars, scorerVars, restVars>>
    /\ UNCHANGED <<bestMatch, clientClauses, vendorClauses, results, order, pos, scored, gpt,
                   model, calls, aiRes, completed>>

\* await vendorFile.arrayBuffer() settles; with both buffers the handler
\* calls parsePDF on the client's.
PostReadVendor ==
    /\ phase = "readingVendor"
    /\ IF request.vendorReadable
       THEN phase' = "buffered" /\ UNCHANGED response
       ELSE phase' = "responded" /\ response' = UnreadableResponse
    /\ UNCHANGED <<docVars, segVars, scorerVars, restVars>>
    /\ UNCHANGED <<bestMatch, clientClauses, vendorClauses, results, order, pos, scored, gpt,
                   model, calls, aiRes, completed>>

\* await parsePDF(clientBuffer): the clauses, or the error the catch around
\* the two calls answers with.
PostParseClient ==
    /\ phase = "buffered"
    /\ \E parsed \in {parsePDF(clientDoc)} :
         IF parsed.error # ""
         THEN /\ parseError' = parsed.error
              /\ response' = ParseErrorResponse
              /\ phase' = "responded"
              /\ UNCHANGED clientClauses
         ELSE /\ clientClauses' = parsed.clauses
              /\ phase' = "clientParsed"
              /\ UNCHANGED <<parseError, response>>
    /\ UNCHANGED <<bestMatch, vendorClauses, results, order, pos, scored, gpt, model, calls,
                   aiRes, completed, request, clientDoc, vendorDoc, segVars, scorerVars,
                   restVars>>

\* await parsePDF(vendorBuffer)
PostParseVendor ==
    /\ phase = "clientParsed"
    /\ \E parsed \in {parsePDF(vendorDoc)} :
         IF parsed.error # ""
         THEN /\ parseError' = parsed.error
              /\ response' = ParseErrorResponse
              /\ phase' = "responded"
              /\ UNCHANGED vendorClauses
         ELSE /\ vendorClauses' = parsed.clauses
              /\ phase' = "parsed"
              /\ UNCHANGED <<parseError, response>>
    /\ UNCHANGED <<bestMatch, clientClauses, results, order, pos, scored, gpt, model, calls,
                   aiRes, completed, request, clientDoc, vendorDoc, segVars, scorerVars,
                   restVars>>

\* The handler from the parsed lists to the await of Promise.all: the key
\* clauses of both lists are extracted and every callback runs to its first
\* await, so every request is sent; a callback without both texts returns at
\* once.
PostStart ==
    /\ phase = "parsed"
    /\ phase' = "awaiting"
    /\ calls' = [k \in KeyIdx |-> IF BothFound(k) THEN "inflight" ELSE "notfound"]
    /\ aiRes' = [k \in KeyIdx |->
                   IF BothFound(k) THEN Undefined
                   ELSE Entry(KEY_CLAUSE_TYPES[k], NotFoundTriple,
                              ClientKey(k).text, VendorKey(k).text)]
    /\ completed' = NotFoundOrder(1)
    /\ UNCHANGED <<docVars, segVars, scorerVars, restVars>>
    /\ UNCHANGED <<bestMatch, clientClauses, vendorClauses, results, order, pos, scored, gpt,
                   model, response>>

\* The request of key clause k ends and its callback returns.
CallSettles(k) ==
    /\ phase = "awaiting"
    /\ calls[k] = "inflight"
    /\ \E end \in CallEnds :
         /\ calls' = [calls EXCEPT ![k] = end]
         /\ aiRes' = [aiRes EXCEPT ![k] = CallbackValue(k, end)]
    /\ completed' = Append(completed, k)
    /\ UNCHANGED <<docVars, segVars, scorerVars, restVars>>
    /\ UNCHANGED <<bestMatch, clientClauses, vendorClauses, results, order, pos, scored, gpt,
                   phase, model, response>>

\* The provider will never answer the request of key clause k.
CallHangs(k) ==
    /\ phase = "awaiting"
    /\ calls[k] = "inflight"
    /\ calls' = [calls EXCEPT ![k] = "hung"]
    /\ UNCHANGED <<docVars, segVars, scorerVars, restVars>>
    /\ UNCHANGED <<bestMatch, clientClauses, vendorClauses, results, order, pos, scored, gpt,
                   phase, model, aiRes, completed, response>>

\* The OpenAI client ends a request that got no answer; axios.post is called
\* without a timeout, so nothing ends such a request to Mistral.
OpenAITimeout(k) ==
    /\ phase = "awaiting"
    /\ model = "openai"
    /\ calls[k] = "hung"
    /\ calls' = [calls EXCEPT ![k] = "timeout"]
    /\ aiRes' = [aiRes EXCEPT ![k] = CallbackValue(k, "timeout")]
    /\ completed' = Append(completed, k)
    /\ UNCHANGED <<docVars, segVars, scorerVars, restVars>>
    /\ UNCHANGED <<bestMatch, clientClauses, vendorClauses, results, order, pos, scored, gpt,
                   phase, model, response>>

\* Promise.all settles and the handler returns: the list once every callback
\* has returned, the outer catch's error as soon as one has thrown.
PostRespond ==
    /\ phase = "awaiting"
    /\ \/ \A k \in KeyIdx : Settled(k)
       \/ \E k \in KeyIdx : aiRes[k] = Rejected
    /\ response' = IF \E k \in KeyIdx : aiRes[k] = Rejected
                   THEN ErrorResponse(CallError)
                   ELSE [status |-> 200, error |-> "",
                         aiComparisonResults |-> PromiseAll(aiRes, completed)]
    /\ phase' = "responded"
    /\ UNCHANGED <<docVars, segVars, scorerVars, restVars>>
    /\ UNCHANGED <<bestMatch, clientClauses, vendorClauses, results, order, pos, scored, gpt,
                   model, calls, aiRes, completed>>

InitRoute ==
    /\ request \in RequestPool
    /\ clientDoc \in RouteDocs(MaxClient)
    /\ vendorDoc \in RouteDocs(MaxVendor)
    /\ parseError = ""
    /\ clientClauses = <<>>
    /\ vendorClauses = <<>>
    /\ IdleSplit
    /\ IdleScorer
    /\ IdleEnhance
    /\ IdleSingletons
    /\ IdleUI
    /\ IdleObligations
    /\ results = <<>>
    /\ order = <<>>
    /\ pos = 0
    /\ scored = {}
    /\ gpt = <<>>
    /\ bestMatch = NoMatch
    /\ phase = "request"
    /\ model \in {"mistral", "openai"}
    /\ calls = [i \in KeyIdx |-> "none"]
    /\ aiRes = [i \in KeyIdx |-> Undefined]
    /\ completed = <<>>
    /\ response = NoResponse

NextRoute ==
    \/ PostFormData
    \/ PostReadClient
    \/ PostReadVendor
    \/ PostParseClient
    \/ PostParseVendor
    \/ PostStart
    \/ \E k \in KeyIdx : CallSettles(k)
    \/ \E k \in KeyIdx : CallHangs(k)
    \/ \E k \in KeyIdx : OpenAITimeout(k)
    \/ PostRespond

SpecRoute == InitRoute /\ [][NextRoute]_vars

\* The event loop runs every step that can run.
FairSpecRoute == SpecRoute /\ WF_vars(NextRoute)

----------------------------------------------------------------------------
(* pdf-parser.ts parsePDF, line by line *)

\* The lines of the texts handed to parsePDF
LinePool ==
    { <<"1.", "Payment">>, <<"1.1", "payment">>, <<"A.", "Notices">>,
      <<"A.1", "delivery">>, <<"(a)", "the", "days">>, <<"payment", "days">>, <<>> }

\* const text = await extractTextFromPDF(file)
ExtractText ==
    /\ phase = "extracting"
    /\ \E extracted \in {extractTextFromPDF(clientDoc)} :
         IF extracted.error # ""
         THEN parseError' = extracted.error /\ phase' = "thrown"
         ELSE phase' = "splitting" /\ UNCHANGED parseError
    /\ UNCHANGED <<bestMatch, clientClauses, vendorClauses, results, order, pos, scored, gpt,
                   model, calls, aiRes, completed, response, request, clientDoc, vendorDoc,
                   segVars, scorerVars, restVars>>

\* One iteration of the loop of splitIntoSections
SplitLine ==
    /\ phase = "splitting"
    /\ lineNo < Len(clientDoc)
    /\ \E acc \in {SectionStep([sections |-> sections, currentSection |-> currentSection],
                                clientDoc[lineNo + 1])} :
         /\ sections' = acc.sections
         /\ currentSection' = acc.currentSection
    /\ lineNo' = lineNo + 1
    /\ UNCHANGED <<bestMatch, clientClauses, vendorClauses, results, order, pos, scored, gpt,
                   phase, model, calls, aiRes, completed, response, docVars,
                   scorerVars, restVars>>

\* The loop is over: splitIntoSections pushes the section in progress and
\* returns, and parsePDF maps the sections to clauses and returns them, or
\* throws if there is none.
SplitReturn ==
    /\ phase = "splitting"
    /\ lineNo = Len(clientDoc)
    /\ \E secs \in {SectionFlush([sections |-> sections,
                                  currentSection |-> currentSection])} :
         /\ sections' = secs
         /\ IF Len(secs) = 0
            THEN /\ parseError' = NoSectionsError
                 /\ phase' = "thrown"
                 /\ UNCHANGED clientClauses
            ELSE /\ clientClauses' = SectionClauses(secs)
                 /\ phase' = "returned"
                 /\ UNCHANGED parseError
    /\ UNCHANGED <<bestMatch, vendorClauses, results, order, pos, scored, gpt, model, calls,
                   aiRes, completed, response, request, clientDoc, vendorDoc, lineNo,
                   currentSection, scorerVars, restVars>>

InitParse ==
    /\ request = NoRequest
    /\ clientDoc \in SeqsUpTo(LinePool, 0, MaxLines)
    /\ vendorDoc = <<>>
    /\ parseError = ""
    /\ IdleSplit
    /\ IdleScorer
    /\ IdleEnhance
    /\ IdleSingletons
    /\ IdleUI
    /\ IdleObligations
    /\ clientClauses = <<>>
    /\ vendorClauses = <<>>
    /\ results = <<>>
    /\ order = <<>>
    /\ pos = 0
    /\ scored = {}
    /\ gpt = <<>>
    /\ bestMatch = NoMatch
    /\ phase = "extracting"
    /\ model = "mistral"
    /\ calls = [i \in KeyIdx |-> "none"]
    /\ aiRes = [i \in KeyIdx |-> Undefined]
    /\ completed = <<>>
    /\ response = NoResponse

NextParse == ExtractText \/ SplitLine \/ SplitReturn

SpecParse == InitParse /\ [][NextParse]_vars

----------------------------------------------------------------------------
(* ai-service.ts calculateSemanticSimilarity, called on text blocks *)

\* The words of the text blocks
WordPool == {"payment", "days", "invoice", "the"}

ScorerCall(text1, text2) ==
    [text1 |-> text1, text2 |-> text2,
     similarity |-> calculateSemanticSimilarity(text1, text2)]

\* calculateSemanticSimilarity(arg1, arg2)
ScoreCall ==
    /\ phase = "scoring"
    /\ scores = <<>>
    /\ scores' = <<ScorerCall(arg1, arg2)>>
    /\ UNCHANGED <<bestMatch, clientClauses, vendorClauses, results, order, pos, scored, gpt,
                   phase, model, calls, aiRes, completed, response, docVars,
                   segVars, arg1, arg2, restVars>>

\* A word is added to one of the two blocks and the scorer is called again.
ScoreExtended ==
    /\ phase = "scoring"
    /\ Len(scores) = 1
    /\ \E w \in WordPool :
         \/ arg1' = Append(arg1, w) /\ UNCHANGED arg2
         \/ arg2' = Append(arg2, w) /\ UNCHANGED arg1
    /\ scores' = Append(scores, ScorerCall(arg1', arg2'))
    /\ UNCHANGED <<bestMatch, clientClauses, vendorClauses, results, order, pos, scored, gpt,
                   phase, model, calls, aiRes, completed, response, docVars,
                   segVars, restVars>>

InitScore ==
    /\ arg1 \in SeqsUpTo(WordPool, 0, MaxWords)
    /\ arg2 \in SeqsUpTo(WordPool, 0, MaxWords)
    /\ scores = <<>>
    /\ IdleDocs
    /\ IdleSplit
    /\ IdleEnhance
    /\ IdleSingletons
    /\ IdleUI
    /\ IdleObligations
    /\ clientClauses = <<>>
    /\ vendorClauses = <<>>
    /\ results = <<>>
    /\ order = <<>>
    /\ pos = 0
    /\ scored = {}
    /\ gpt = <<>>
    /\ bestMatch = NoMatch
    /\ phase = "scoring"
    /\ model = "mistral"
    /\ calls = [i \in KeyIdx |-> "none"]
    /\ aiRes = [i \in KeyIdx |-> Undefined]
    /\ completed = <<>>
    /\ response = NoResponse

NextScore == ScoreCall \/ ScoreExtended

SpecScore == InitScore /\ [][NextScore]_vars

----------------------------------------------------------------------------
(* pdf-parser.ts classifyClauseType, called on the content of a clause *)

\* The words of the contents classified
ClassifyWords ==
    {"payment", "delivery", "terminate", "vendor", "liability", "shipment", "days"}

\* compareClauses: type: clause.type || classifyClauseType(clause.content)
Classify ==
    /\ phase = "classifying"
    /\ clientClauses' = typedList(clientClauses)
    /\ phase' = "classified"
    /\ UNCHANGED <<bestMatch, vendorClauses, results, order, pos, scored, gpt, model, calls,
                   aiRes, completed, response, docVars, segVars, scorerVars, restVars>>

InitClassify ==
    /\ \E content \in SeqsUpTo(ClassifyWords, 0, MaxWords) :
         clientClauses = <<Clause("Clause", content, "")>>
    /\ vendorClauses = <<>>
    /\ IdleDocs
    /\ IdleSplit
    /\ IdleScorer
    /\ IdleEnhance
    /\ IdleSingletons
    /\ IdleUI
    /\ IdleObligations
    /\ results = <<>>
    /\ order = <<>>
    /\ pos = 0
    /\ scored = {}
    /\ gpt = <<>>
    /\ bestMatch = NoMatch
    /\ phase = "classifying"
    /\ model = "mistral"
    /\ calls = [i \in KeyIdx |-> "none"]
    /\ aiRes = [i \in KeyIdx |-> Undefined]
    /\ completed = <<>>
    /\ response = NoResponse

NextClassify == Classify

SpecClassify == InitClassify /\ [][NextClassify]_vars

----------------------------------------------------------------------------
(* ai-service.ts enhanceResultsWithAI *)

\* No comparison and no request is running
IdleComparison ==
    /\ clientClauses = <<>>
    /\ vendorClauses = <<>>
    /\ results = <<>>
    /\ order = <<>>
    /\ pos = 0
    /\ scored = {}
    /\ gpt = <<>>
    /\ bestMatch = NoMatch
    /\ model = "mistral"
    /\ calls = [i \in KeyIdx |-> "none"]
    /\ aiRes = [i \in KeyIdx |-> Undefined]
    /\ completed = <<>>
    /\ response = NoResponse

comparisonVars ==
    <<clientClauses, vendorClauses, results, order, pos, scored, gpt, bestMatch,
      model, calls, aiRes, completed, response>>

\* A ComparisonResult as compareClauses leaves it
EnhanceInput(title, status) ==
    [clauseTitle  |-> title,
     clientClause |-> <<"payment", "days">>,
     vendorClause |-> IF status = "Missing" THEN <<>> ELSE <<"invoice", "days">>,
     status       |-> status,
     suggestedFix |-> IF status = "Aligned" THEN Undefined
                      ELSE <<"Review and align", title>>]

EnhancePool ==
    {EnhanceInput("Payment", "Aligned"), EnhanceInput("Payment", "Partial"),
     EnhanceInput("Delivery", "Aligned"), EnhanceInput("Delivery", "Missing")}

\* How openai.chat.completions.create can end: a completion with content, a
\* completion without content, a rejection
CompletionEnds == {"ok", "empty", "failed"}

\* completion.choices[0]?.message?.content of the call made for a result
Suggestion(result) == <<"Suggestion for", result.clauseTitle, result.status>>

\* { ...result, suggestedFix: suggestion }
Enhanced(result, end) ==
    [result EXCEPT !.suggestedFix =
        IF end = "ok" THEN Suggestion(result)
        ELSE <<"No specific suggestions available">>]

\* What the function returns once Promise.all has settled: the mapped list,
\* or from the catch around Promise.all the list it was given
EnhanceOutcome(input, ends) ==
    IF \E i \in 1..Len(input) : ends[i] = "failed" THEN input
    ELSE [i \in 1..Len(input) |->
            IF ends[i] = "skipped" THEN input[i] ELSE Enhanced(input[i], ends[i])]

\* The function up to the await of Promise.all: without an API key it returns
\* its argument; otherwise every callback runs to its first await, the
\* callback of an Aligned result returning at once.
EnhanceStart ==
    /\ phase = "enhancing"
    /\ IF ~apiKey
       THEN /\ enhanced' = results
            /\ phase' = "enhanced"
            /\ UNCHANGED gpt
       ELSE /\ gpt' = [i \in 1..Len(results) |->
                         IF results[i].status = "Aligned" THEN "skipped"
                         ELSE "inflight"]
            /\ phase' = "awaiting"
            /\ UNCHANGED enhanced
    /\ UNCHANGED <<bestMatch, clientClauses, vendorClauses, results, order, pos, scored, model,
                   calls, aiRes, completed, response, apiKey, docVars, segVars,
                   scorerVars, singletonVars, uiVars, obligationVars>>

\* The completion request of result i ends.
EnhanceCallSettles(i) ==
    /\ phase = "awaiting"
    /\ gpt[i] = "inflight"
    /\ \E end \in CompletionEnds : gpt' = [gpt EXCEPT ![i] = end]
    /\ UNCHANGED <<bestMatch, clientClauses, vendorClauses, results, order, pos, scored, phase,
                   model, calls, aiRes, completed, response, docVars, segVars,
                   scorerVars, restVars>>

\* Promise.all settles, with the first rejection or when every callback has
\* returned, and the function returns.
EnhanceReturn ==
    /\ phase = "awaiting"
    /\ \/ \E i \in 1..Len(gpt) : gpt[i] = "failed"
       \/ \A i \in 1..Len(gpt) : gpt[i] # "inflight"
    /\ enhanced' = EnhanceOutcome(results, gpt)
    /\ phase' = "enhanced"
    /\ UNCHANGED <<bestMatch, clientClauses, vendorClauses, results, order, pos, scored, gpt,
                   model, calls, aiRes, completed, response, apiKey, docVars,
                   segVars, scorerVars, singletonVars, uiVars, obligationVars>>

InitEnhance ==
    /\ results \in SeqsUpTo(EnhancePool, 0, MaxClient)
    /\ apiKey \in BOOLEAN
    /\ enhanced = <<>>
    /\ phase = "enhancing"
    /\ clientClauses = <<>>
    /\ vendorClauses = <<>>
    /\ order = <<>>
    /\ pos = 0
    /\ scored = {}
    /\ gpt = <<>>
    /\ bestMatch = NoMatch
    /\ model = "mistral"
    /\ calls = [i \in KeyIdx |-> "none"]
    /\ aiRes = [i \in KeyIdx |-> Undefined]
    /\ completed = <<>>
    /\ response = NoResponse
    /\ IdleDocs
    /\ IdleSplit
    /\ IdleScorer
    /\ IdleSingletons
    /\ IdleUI
    /\ IdleObligations

NextEnhance ==
    \/ EnhanceStart
    \/ \E i \in 1..Len(results) : EnhanceCallSettles(i)
    \/ EnhanceReturn

SpecEnhance == InitEnhance /\ [][NextEnhance]_vars

----------------------------------------------------------------------------
(* part_002 getClassifier and getEmbedder *)

\* let classifier: any = null, let embedder: any = null
Pipelines == {"classifier", "embedder"}

Callers == 1..MaxCallers

\* A caller that has not called yet
NotCalled == [pc |-> "idle", which |-> "", pending |-> 0, got |-> 0]

\* A caller calls getClassifier or getEmbedder: the function runs to its
\* await when the variable is null, the pipeline() call made, and returns the
\* variable's value otherwise.
GetPipeline(c, p) ==
    /\ phase = "serving"
    /\ callers[c].pc = "idle"
    /\ IF pipelines[p] = 0
       THEN /\ built' = [built EXCEPT ![p] = built[p] + 1]
            /\ callers' = [callers EXCEPT ![c] =
                             [pc |-> "awaiting", which |-> p,
                              pending |-> built[p] + 1, got |-> 0]]
       ELSE /\ callers' = [callers EXCEPT ![c] =
                             [pc |-> "returned", which |-> p,
                              pending |-> 0, got |-> pipelines[p]]]
            /\ UNCHANGED built
    /\ UNCHANGED <<comparisonVars, phase, pipelines, docVars, segVars, scorerVars,
                   enhanceVars, uiVars, obligationVars>>

\* The pipeline() call of a caller resolves: the function assigns the instance
\* to the variable and returns the variable.
PipelineResolves(c) ==
    /\ phase = "serving"
    /\ callers[c].pc = "awaiting"
    /\ pipelines' = [pipelines EXCEPT ![callers[c].which] = callers[c].pending]
    /\ callers' = [callers EXCEPT ![c] =
                     [pc |-> "returned", which |-> callers[c].which,
                      pending |-> 0, got |-> callers[c].pending]]
    /\ UNCHANGED <<comparisonVars, phase, built, docVars, segVars, scorerVars,
                   enhanceVars, uiVars, obligationVars>>

\* The pipeline() call of a caller rejects: the function throws and the
\* variable keeps its value.
PipelineRejects(c) ==
    /\ phase = "serving"
    /\ callers[c].pc = "awaiting"
    /\ callers' = [callers EXCEPT ![c] =
                     [pc |-> "threw", which |-> callers[c].which,
                      pending |-> 0, got |-> 0]]
    /\ UNCHANGED <<comparisonVars, phase, pipelines, built, docVars, segVars,
                   scorerVars, enhanceVars, uiVars, obligationVars>>

InitSingletons ==
    /\ pipelines = [p \in Pipelines |-> 0]
    /\ built = [p \in Pipelines |-> 0]
    /\ callers = [c \in Callers |-> NotCalled]
    /\ phase = "serving"
    /\ IdleComparison
    /\ IdleDocs
    /\ IdleSplit
    /\ IdleScorer
    /\ IdleEnhance
    /\ IdleUI
    /\ IdleObligations

NextSingletons ==
    \/ \E c \in Callers, p \in Pipelines : GetPipeline(c, p)
    \/ \E c \in Callers : PipelineResolves(c)
    \/ \E c \in Callers : PipelineRejects(c)

SpecSingletons == InitSingletons /\ [][NextSingletons]_vars

----------------------------------------------------------------------------
(* contract-comparison-tool.tsx handleCompare *)

\* The progress values of ANALYSIS_STEPS
ANALYSIS_STEPS == <<20, 40, 60, 70, 80, 90, 100>>

\* data.aiComparisonResults of a response body, <<>> when the field is missing
Payloads == {<<>>, <<"Payment Terms">>, <<"Payment Terms", "Termination">>}

DefaultMessage == "Failed to compare contracts"

\* errorData.error || errorMessage of an error body: the error text of the
\* handler, the default when the body has none
ErrorMessages == {ParseErrorResponse.error, DefaultMessage}

\* The state of a timer after clearInterval: it never fires again
\* Mutant: the interval is left running.
clearInterval_Skipped(t) == t

clearInterval(t) == "cleared"

\* handleFileUpload: a PDF is chosen for one side.
UploadFile ==
    /\ phase = "mounted"
    /\ \/ clientFile' = TRUE /\ UNCHANGED vendorFile
       \/ vendorFile' = TRUE /\ UNCHANGED clientFile
    /\ uiError' = ""
    /\ UNCHANGED <<comparisonVars, phase, loading, progress, finalizing, shown,
                   timer, currentStep, fetch, docVars, segVars, scorerVars,
                   enhanceVars, singletonVars, obligationVars>>

\* The remove button of one side: setClientFile(null) / setVendorFile(null)
RemoveFile ==
    /\ phase = "mounted"
    /\ \/ clientFile /\ clientFile' = FALSE /\ UNCHANGED vendorFile
       \/ vendorFile /\ vendorFile' = FALSE /\ UNCHANGED clientFile
    /\ UNCHANGED <<comparisonVars, phase, loading, uiError, progress, finalizing,
                   shown, timer, currentStep, fetch, docVars, segVars, scorerVars,
                   enhanceVars, singletonVars, obligationVars>>

\* A click on the compare button, enabled with both files chosen and loading
\* false: handleCompare runs to its await of fetch.
HandleCompare ==
    /\ phase = "mounted"
    /\ clientFile /\ vendorFile /\ ~loading
    /\ loading' = TRUE
    /\ uiError' = ""
    /\ progress' = 0
    /\ finalizing' = FALSE
    /\ currentStep' = 0
    /\ timer' = "running"
    /\ fetch' = "inflight"
    /\ UNCHANGED <<comparisonVars, phase, clientFile, vendorFile, shown, docVars,
                   segVars, scorerVars, enhanceVars, singletonVars, obligationVars>>

\* The interval callback fires.
Tick ==
    /\ phase = "mounted"
    /\ timer = "running"
    /\ IF currentStep < Len(ANALYSIS_STEPS)
       THEN /\ progress' = ANALYSIS_STEPS[currentStep + 1]
            /\ currentStep' = currentStep + 1
            /\ UNCHANGED <<timer, finalizing>>
       ELSE /\ timer' = clearInterval(timer)
            /\ finalizing' = TRUE
            /\ UNCHANGED <<progress, currentStep>>
    /\ UNCHANGED <<comparisonVars, phase, clientFile, vendorFile, loading, uiError,
                   shown, fetch, docVars, segVars, scorerVars, enhanceVars,
                   singletonVars, obligationVars>>

\* catch and finally of handleCompare
AttemptFails(message) ==
    /\ uiError' = message
    /\ finalizing' = FALSE
    /\ loading' = FALSE
    /\ timer' = clearInterval(timer)
    /\ fetch' = "failed"
    /\ UNCHANGED <<comparisonVars, phase, clientFile, vendorFile, progress, shown,
                   currentStep, docVars, segVars, scorerVars, enhanceVars,
                   singletonVars, obligationVars>>

\* await fetch(...) settles: with an ok response, with an error response whose
\* body is JSON, with an error response of another content type, or rejected
FetchSettles ==
    /\ phase = "mounted"
    /\ fetch = "inflight"
    /\ \/ /\ fetch' \in {"body", "errorBody"}
          /\ UNCHANGED <<comparisonVars, phase, clientFile, vendorFile, loading,
                         uiError, progress, finalizing, shown, timer, currentStep,
                         docVars, segVars, scorerVars, enhanceVars, singletonVars,
                         obligationVars>>
       \/ AttemptFails("Server error: 500 Internal Server Error")
       \/ AttemptFails("Failed to fetch")

\* await response.json() of an error response settles and the error is thrown.
ErrorBodyRead ==
    /\ phase = "mounted"
    /\ fetch = "errorBody"
    /\ \E message \in ErrorMessages \cup {"Unexpected end of JSON input"} :
         AttemptFails(message)

\* await response.json() of an ok response settles: the list is put on
\* display, or the body does not parse.
BodyRead ==
    /\ phase = "mounted"
    /\ fetch = "body"
    /\ \/ /\ shown' \in Payloads
          /\ progress' = 100
          /\ finalizing' = FALSE
          /\ loading' = FALSE
          /\ timer' = clearInterval(timer)
          /\ fetch' = "done"
          /\ UNCHANGED <<comparisonVars, phase, clientFile, vendorFile, uiError,
                         currentStep, docVars, segVars, scorerVars, enhanceVars,
                         singletonVars, obligationVars>>
       \/ AttemptFails("Unexpected end of JSON input")

InitUI ==
    /\ IdleUI
    /\ phase = "mounted"
    /\ IdleComparison
    /\ IdleDocs
    /\ IdleSplit
    /\ IdleScorer
    /\ IdleEnhance
    /\ IdleSingletons
    /\ IdleObligations

NextUI ==
    \/ UploadFile
    \/ RemoveFile
    \/ HandleCompare
    \/ Tick
    \/ FetchSettles
    \/ ErrorBodyRead
    \/ BodyRead

SpecUI == InitUI /\ [][NextUI]_vars

----------------------------------------------------------------------------
(* pdf-parser.ts splitIntoObligations *)

(* Here a text is a sequence of symbols: "A" a word that begins with a capital
   letter, "a" a word that begins with a small letter, "1" a run of digits,
   "(a)" a lettered marker, "-" a list indicator, " " one whitespace
   character, and the punctuation marks ".", ";" and ":". *)

\* sentenceDelimiters: the punctuation mark each pattern begins with
DelimiterMark == <<".", ";", ":", ".", ".">>

\* The lookahead of the k-th pattern at position j of s
Lookahead(k, s, j) ==
    CASE k \in {1, 2, 3} -> j <= Len(s) /\ s[j] = "A"                        \* (?=[A-Z])
      [] k = 4          -> j + 1 <= Len(s) /\ s[j] = "1" /\ s[j + 1] = "."   \* (?=\d+\.)
      [] k = 5          -> j <= Len(s) /\ s[j] = "(a)"                      \* (?=\([a-z]\))

\* \s+ from position i: the position after the run of whitespace
RECURSIVE SkipSpaces(_, _)
SkipSpaces(s, i) ==
    IF i <= Len(s) /\ s[i] = " " THEN SkipSpaces(s, i + 1) ELSE i

\* Where the match of the k-th pattern that begins at position i ends (the
\* position after it), 0 when the pattern does not match there
DelimiterEnd(k, s, i) ==
    IF /\ s[i] = DelimiterMark[k]
       /\ i + 1 <= Len(s)
       /\ s[i + 1] = " "
       /\ Lookahead(k, s, SkipSpaces(s, i + 1))
    THEN SkipSpaces(s, i + 1)
    ELSE 0

\* s.split(pattern) from position i on, the piece in progress begun at start
RECURSIVE SplitOn(_, _, _, _)
SplitOn(k, s, i, start) ==
    IF i > Len(s) THEN <<SubSeq(s, start, Len(s))>>
    ELSE IF DelimiterEnd(k, s, i) > 0
         THEN <<SubSeq(s, start, i - 1)>>
              \o SplitOn(k, s, DelimiterEnd(k, s, i), DelimiterEnd(k, s, i))
         ELSE SplitOn(k, s, i + 1, start)

\* s.trim()
RECURSIVE trim(_)
trim(s) ==
    IF s = <<>> THEN s
    ELSE IF Head(s) = " " THEN trim(Tail(s))
    ELSE IF s[Len(s)] = " " THEN trim(SubSeq(s, 1, Len(s) - 1))
    ELSE s

\* .map(s => s.trim()).filter(s => s.length > 0)
RECURSIVE TrimAndFilter(_)
TrimAndFilter(pieces) ==
    IF pieces = <<>> THEN <<>>
    ELSE (IF trim(Head(pieces)) = <<>> THEN <<>> ELSE <<trim(Head(pieces))>>)
         \o TrimAndFilter(Tail(pieces))

\* Mutant: the pieces are returned as split.
SplitObligation_Raw(k, obligation) == SplitOn(k, obligation, 1, 1)

\* obligation.split(pattern).map(s => s.trim()).filter(s => s.length > 0)
SplitObligation(k, obligation) == TrimAndFilter(SplitOn(k, obligation, 1, 1))

\* One pass of the loop over sentenceDelimiters: flatMap over the list
RECURSIVE DelimiterPass(_, _)
DelimiterPass(k, list) ==
    IF list = <<>> THEN <<>>
    ELSE SplitObligation(k, Head(list)) \o DelimiterPass(k, Tail(list))

\* obligation.match(/^[•\-\*]\s/)
StartsWithBullet(s) == Len(s) >= 2 /\ s[1] = "-" /\ s[2] = " "

\* s.split(/[•\-\*]\s/) from position i on
RECURSIVE SplitOnBullets(_, _, _)
SplitOnBullets(s, i, start) ==
    IF i > Len(s) THEN <<SubSeq(s, start, Len(s))>>
    ELSE IF s[i] = "-" /\ i + 1 <= Len(s) /\ s[i + 1] = " "
         THEN <<SubSeq(s, start, i - 1)>> \o SplitOnBullets(s, i + 2, i + 2)
         ELSE SplitOnBullets(s, i + 1, start)

\* The flatMap over the list indicators
RECURSIVE BulletPass(_)
BulletPass(list) ==
    IF list = <<>> THEN <<>>
    ELSE (IF StartsWithBullet(Head(list))
          THEN TrimAndFilter(SplitOnBullets(Head(list), 1, 1))
          ELSE <<Head(list)>>)
         \o BulletPass(Tail(list))

\* The pieces the texts are put together from
PiecePool ==
    {<<"A">>, <<"a">>, <<" ">>, <<".", " ", "A">>, <<";", " ", "A">>,
     <<":", " ", "A">>, <<".", " ", "1", ".">>, <<".", " ", "(a)">>,
     <<".", " ", "a">>, <<"-", " ", "a">>}

\* One iteration of the loop over sentenceDelimiters, then the split on the
\* list indicators and the return.
ObligationPass ==
    /\ phase = "dividing"
    /\ pass <= Len(DelimiterMark)
    /\ \E list \in {IF pass < Len(DelimiterMark)
                     THEN DelimiterPass(pass + 1, obligations)
                     ELSE BulletPass(obligations)} :
         obligations' = list
    /\ pass' = pass + 1
    /\ phase' = IF pass = Len(DelimiterMark) THEN "divided" ELSE phase
    /\ UNCHANGED <<comparisonVars, obligationText, docVars, segVars, scorerVars,
                   enhanceVars, singletonVars, uiVars>>

InitObligations ==
    /\ obligationText \in {Flatten(ps) : ps \in SeqsUpTo(PiecePool, 0, MaxPieces)}
    /\ obligations = <<obligationText>>
    /\ pass = 0
    /\ phase = "dividing"
    /\ IdleComparison
    /\ IdleDocs
    /\ IdleSplit
    /\ IdleScorer
    /\ IdleEnhance
    /\ IdleSingletons
    /\ IdleUI

NextObligations == ObligationPass

SpecObligations == InitObligations /\ [][NextObligations]_vars

\* Both entry points: a run of compareClauses or a request to the route
InitAll == InitCompare \/ InitRoute
NextAll == NextCompare \/ NextRoute
SpecAll == InitAll /\ [][NextAll]_vars

----------------------------------------------------------------------------
(* Claims about compareClauses (SpecCompare) *)

\* The loops are over: compareClauses returns results
Returned == phase = "comparing" /\ pos = Len(order)

\* The resolved type of the i-th client / j-th vendor clause
ClientType(i) == typed(clientClauses[i]).type
VendorType(j) == typed(vendorClauses[j]).type

\* The vendor clauses whose resolved type is t
VendorsOfType(t) == {j \in 1..Len(vendorClauses) : VendorType(j) = t}

\* The client clause the k-th result was built from
Src(k) == order[k]

\* C1: compareClauses returns its results in client-document order: the i-th
\* result is the result of the i-th client clause.
C1_ClientOrder ==
    Returned =>
        /\ Len(results) = Len(clientClauses)
        /\ \A i \in 1..Len(results) :
             /\ results[i].clauseTitle = clientClauses[i].sectionTitle
             /\ results[i].clientClause = clientClauses[i].content

\* The standalone score of client clause i against vendor clause j
PairScore(i, j) ==
    calculateSemanticSimilarity(clientClauses[i].content, vendorClauses[j].content)

\* The earliest vendor clause of type t whose standalone score against client
\* clause i is the maximum over the vendor clauses of type t.
EarliestMax(i, t) ==
    CHOOSE j \in VendorsOfType(t) :
        /\ \A m \in VendorsOfType(t) : ScoreGE(PairScore(i, j), PairScore(i, m))
        /\ \A m \in VendorsOfType(t) :
             ScoreEQ(PairScore(i, m), PairScore(i, j)) => j <= m

\* C2: a matched result shows the vendor clause of the client clause's type
\* with the maximal pairwise score, the earliest on ties, and reports the
\* score of that pair.
C2_SelectsMaxPairwise ==
    Returned =>
        \A k \in 1..Len(results) :
            VendorsOfType(results[k].clauseType) # {} =>
                LET j == EarliestMax(Src(k), results[k].clauseType)
                IN  /\ results[k].vendorClause = vendorClauses[j].content
                    /\ ScoreEQ(results[k].similarityScore, PairScore(Src(k), j))

\* The number of entries of the sequence s that satisfy having title and text
Occurrences(s, title, text, T(_), X(_)) ==
    Cardinality({i \in 1..Len(s) : T(s[i]) = title /\ X(s[i]) = text})

ClauseTitleOf(c) == c.sectionTitle
ClauseTextOf(c) == c.content
ResultTitleOf(r) == r.clauseTitle
ResultTextOf(r) == r.clientClause

\* C3: one result per client clause: as many results as client clauses, every
\* client clause in exactly one result (the results are a rearrangement of
\* the client list), and no result for a type only the vendor has.
C3_OneResultPerClient ==
    /\ Len(results) = pos
    /\ Returned =>
        /\ Len(results) = Len(clientClauses)
        /\ \A p \in ClausePool :
             Occurrences(results, p.sectionTitle, p.content, ResultTitleOf, ResultTextOf)
             = Occurrences(clientClauses, p.sectionTitle, p.content,
                           ClauseTitleOf, ClauseTextOf)
        /\ \A k \in 1..Len(results) :
             results[k].clauseType \in {ClientType(i) : i \in 1..Len(clientClauses)}

C3_Witness ==
    /\ Returned
    /\ \E j \in 1..Len(vendorClauses) :
         VendorType(j) \notin {ClientType(i) : i \in 1..Len(clientClauses)}
    /\ \E k \in 1..Len(results) : results[k].status # "Missing"
    /\ \E a, b \in 1..Len(clientClauses) : a # b /\ clientClauses[a] = clientClauses[b]

\* C4: a result is Missing exactly when the vendor has no clause of the
\* client clause's type, exactly when its vendorClause is empty, and exactly
\* when it has no similarityScore.
C4_MissingIffNoVendorOfType ==
    \A k \in 1..Len(results) :
        /\ (results[k].status = "Missing") <=> (VendorsOfType(ClientType(Src(k))) = {})
        /\ (results[k].status = "Missing") <=> (results[k].vendorClause = <<>>)
        /\ (results[k].status = "Missing") <=> (results[k].similarityScore = Undefined)

C4_Witness ==
    /\ Returned
    /\ \E k \in 1..Len(results) :
         results[k].status = "Missing" /\ results[k].vendorClause = <<>>
    /\ \E k \in 1..Len(results) :
         results[k].status # "Missing" /\ results[k].similarityScore # Undefined

\* C5: the matcher pairs only clauses of one type: the vendor clause of a
\* matched result has the client clause's type, and every pair that was
\* scored is a pair of clauses of the same type.
C5_SameTypePairsOnly ==
    /\ \A k \in 1..Len(results) :
         results[k].status # "Missing" =>
            \E j \in VendorsOfType(ClientType(Src(k))) :
                vendorClauses[j].content = results[k].vendorClause
    /\ \A pr \in scored : ClientType(pr[1]) = VendorType(pr[2])

C5_Witness ==
    /\ Returned
    /\ scored # {}
    /\ \E i \in 1..Len(clientClauses), j \in 1..Len(vendorClauses) :
         /\ ClientType(i) # VendorType(j)
         /\ VendorsOfType(ClientType(i)) # {}

\* C6: when the vendor has a clause of the client clause's type with the
\* same text, the client clause's result is Aligned and has no suggestedFix.
C6_IdenticalIsAligned ==
    Returned =>
        \A k \in 1..Len(results) :
            (\E j \in VendorsOfType(ClientType(Src(k))) :
                vendorClauses[j].content = clientClauses[Src(k)].content)
            => /\ results[k].status = "Aligned"
               /\ results[k].suggestedFix = Undefined

\* C16: the score the matcher computes for a client clause and a vendor
\* clause is the score the standalone scorer gives for the two texts,
\* whatever other vendor clauses were scored before in the run.
C16_PairScoreIsStandalone ==
    \A pr \in scored : ScoreEQ(pr[3], PairScore(pr[1], pr[2]))

----------------------------------------------------------------------------
(* Claims about the route and the analysis collaborators *)

Responded == phase = "responded"

\* The handler parsed both documents and returned its response
Answered == Responded /\ response.status = 200

\* parsePDF has returned or thrown for the client document, for the vendor document
ClientParseDone ==
    /\ FormChecked(request) = NoResponse
    /\ request.clientReadable
    /\ request.vendorReadable
    /\ phase \notin {"request", "readingClient", "readingVendor", "buffered"}
VendorParseDone == ClientParseDone /\ phase # "clientParsed"

TripleOf(e) == [summary |-> e.summary, risk |-> e.risk, recommendation |-> e.recommendation]

\* The entry of key clause k whose analysis call answered
OwnEntry(k) ==
    Entry(KEY_CLAUSE_TYPES[k], ProviderAnswer(KEY_CLAUSE_TYPES[k]),
          ClientKey(k).text, VendorKey(k).text)

\* The entry of key clause k whose analysis call ended with an answer that parsed
AnsweredEntry(k) ==
    Entry(KEY_CLAUSE_TYPES[k], AnswerTriple(KEY_CLAUSE_TYPES[k], calls[k]),
          ClientKey(k).text, VendorKey(k).text)

\* C7: failed analysis calls never abort the run: the response is the full
\* list in key clause order, an entry whose call failed carries fallback text
\* and every other entry carries the result of its own call.
C7_FailuresDoNotAbort ==
    /\ \A k \in KeyIdx : aiRes[k] # Rejected
    /\ (Responded /\ VendorParseDone /\ parseError = "") =>
        /\ response.status = 200
        /\ Len(response.aiComparisonResults) = Len(KEY_CLAUSE_TYPES)
        /\ \A k \in KeyIdx :
             LET e == response.aiComparisonResults[k]
             IN  /\ e.clauseType = KEY_CLAUSE_TYPES[k]
                 /\ calls[k] \in FailedEnds =>
                      /\ TripleOf(e) \in {FallbackTriple, InvalidResponseTriple}
                      /\ e.clientClause = ClientKey(k).text
                      /\ e.vendorClause = VendorKey(k).text
                 /\ calls[k] = "ok" => e = OwnEntry(k)
                 /\ calls[k] \in ParsedEnds => e = AnsweredEntry(k)
                 /\ calls[k] = "notfound" => TripleOf(e) = NotFoundTriple

C7_Witness ==
    /\ Responded
    /\ \E k, m \in KeyIdx :
         /\ calls[k] \in FailedEnds
         /\ calls[m] = "ok"
         /\ TripleOf(response.aiComparisonResults[k]) = FallbackTriple
         /\ response.aiComparisonResults[m] = OwnEntry(m)

\* C8: on any internal failure (network error, empty answer, unparseable
\* answer) the analysis call returns exactly the fallback triple
\* 'Unable to generate summary.' / UNKNOWN / 'Unable to generate
\* recommendation.'.  compareClausesWithMistral breaks it: its catch around
\* JSON.parse returns the 'invalid AI response' strings instead.
C8_ExactFallbackTriple ==
    \A k \in KeyIdx :
        calls[k] \in FailedEnds => TripleOf(aiRes[k]) = FallbackTriple

\* Two analysis calls settled in the reverse of their array order
SettledOutOfOrder ==
    \E a, b \in 1..Len(completed) :
        /\ a < b
        /\ completed[a] > completed[b]
        /\ calls[completed[a]] # "notfound"
        /\ calls[completed[b]] # "notfound"

\* C9: every analysis request is sent before any is awaited, the response is
\* assembled only when every callback has settled, and entry k is the entry
\* of key clause k whatever the order in which the calls settled.
C9_BarrierKeepsArrayOrder ==
    /\ (phase = "awaiting" \/ Answered) => \A k \in KeyIdx : calls[k] # "none"
    /\ Answered =>
        /\ \A k \in KeyIdx : Settled(k)
        /\ Len(response.aiComparisonResults) = Len(KEY_CLAUSE_TYPES)
        /\ \A k \in KeyIdx :
             /\ response.aiComparisonResults[k] = aiRes[k]
             /\ response.aiComparisonResults[k].clauseType = KEY_CLAUSE_TYPES[k]

C9_Witness == Responded /\ SettledOutOfOrder

\* C10: a call that never gets an answer is timed out, so the run still
\* returns its response.
C10_HungCallTimesOut ==
    (\E k \in KeyIdx : calls[k] = "hung") ~> Responded

----------------------------------------------------------------------------
(* Claims about parsing in the route (SpecRoute) *)

NoCallMade == \A k \in KeyIdx : calls[k] = "none" /\ aiRes[k] = Undefined

\* The run ended in the response of the catch around the two parsePDF calls
ParseAborted ==
    /\ Responded
    /\ response = ParseErrorResponse
    /\ NoCallMade

\* C11: a document whose extracted text is empty fails the run with the
\* extraction error: no clause is produced for it, no analysis call is made,
\* the response is the parse error, and when it is the client document the
\* vendor document is never parsed.
C11_EmptyTextFailsRun ==
    /\ (IsBlank(clientDoc) /\ ClientParseDone) =>
          /\ ParseAborted
          /\ parseError = NoTextError
          /\ clientClauses = <<>>
          /\ vendorClauses = <<>>
    /\ (IsBlank(vendorDoc) /\ VendorParseDone) =>
          /\ ParseAborted
          /\ vendorClauses = <<>>
          /\ clientClauses # <<>> => parseError = NoTextError

\* The client text was empty although the vendor document parses
C11_Witness ==
    /\ Responded
    /\ IsBlank(clientDoc)
    /\ parsePDF(vendorDoc).error = ""
    /\ parseError = NoTextError
    /\ vendorClauses = <<>>

HasHeading(text) == \E i \in 1..Len(text) : sectionMatch(text[i]) # ""

\* C12: a document with text but without a heading line makes parsePDF fail
\* with the 'no sections found' error, which aborts the run; a parsePDF call
\* that returned gave at least one clause.
C12_NoHeadingFailsRun ==
    /\ (~IsBlank(clientDoc) /\ ~HasHeading(clientDoc) /\ ClientParseDone) =>
          /\ ParseAborted
          /\ parseError = NoSectionsError
          /\ clientClauses = <<>>
    /\ (~IsBlank(vendorDoc) /\ ~HasHeading(vendorDoc) /\ VendorParseDone) =>
          /\ ParseAborted
          /\ vendorClauses = <<>>
          /\ clientClauses # <<>> => parseError = NoSectionsError
    /\ (phase \in {"clientParsed", "parsed", "awaiting"} \/ Answered) =>
          clientClauses # <<>>
    /\ (phase \in {"parsed", "awaiting"} \/ Answered) => vendorClauses # <<>>

\* The vendor text had no heading line after the client document had parsed
C12_Witness ==
    /\ Responded
    /\ clientClauses # <<>>
    /\ ~IsBlank(vendorDoc)
    /\ ~HasHeading(vendorDoc)
    /\ parseError = NoSectionsError

----------------------------------------------------------------------------
(* Claims about segmentation (SpecParse) *)

\* The indices of the heading lines among the first n lines of the text
HeadingLines(n) == {i \in 1..n : sectionMatch(clientDoc[i]) # ""}

\* The index of the k-th heading line
KthHeading(k) ==
    CHOOSE i \in HeadingLines(Len(clientDoc)) : Cardinality(HeadingLines(i)) = k

\* The lines from the k-th heading line up to the next heading line or, if
\* there is none among the first n lines, up to line n
LinesOfSection(k, n) ==
    LET from   == KthHeading(k)
        later  == {i \in HeadingLines(n) : i > from}
        upto   == IF later = {} THEN n
                  ELSE (CHOOSE i \in later : \A j \in later : i <= j) - 1
    IN  SubSeq(clientDoc, from, upto)

\* The sections started so far: those pushed, then the one in progress
Started ==
    IF phase = "splitting" /\ currentSection # NoSection
    THEN Append(sections, currentSection)
    ELSE sections

\* C20: after any number of lines there is one section per heading line seen,
\* in line order; the section of a heading line holds that line and the lines
\* after it up to the next heading line, so the lines before the first heading
\* line are in no section; a section is in progress exactly when a heading
\* line has been seen, and it is pushed when the input ends.
C20_OneSectionPerHeading ==
    phase \in {"splitting", "returned", "thrown"} =>
        /\ Len(Started) = Cardinality(HeadingLines(lineNo))
        /\ \A k \in 1..Len(Started) : Started[k].content = LinesOfSection(k, lineNo)
        /\ phase = "splitting" =>
              /\ Len(sections) = Max(Cardinality(HeadingLines(lineNo)) - 1, 0)
              /\ (currentSection = NoSection) = (HeadingLines(lineNo) = {})
        /\ (phase = "returned" \/ (phase = "thrown" /\ parseError = NoSectionsError)) =>
              /\ lineNo = Len(clientDoc)
              /\ Len(sections) = Cardinality(HeadingLines(Len(clientDoc)))

\* A text with a line before its first heading line, a heading line followed
\* by another line, and a second heading line, was split.
C20_Witness ==
    /\ phase = "returned"
    /\ clientDoc[1] # <<>>
    /\ sectionMatch(clientDoc[1]) = ""
    /\ Len(sections) = 2
    /\ Len(sections[1].content) = 2

----------------------------------------------------------------------------
(* Claims about status, risk and suggested fix (SpecStatus, SpecResults) *)

\* The results that went through determineStatusAndRisk
Resolved == {k \in 1..Len(results) : results[k].similarityScore # Undefined}

AtLeast(score, hundredths) == score[1] * 100 >= hundredths * score[2]

\* C13: a matched result is Aligned exactly when its score is at least 0.85,
\* Partial exactly when it is at least 0.65 and below 0.85, Non-Compliant
\* exactly when it is below 0.65; determineStatusAndRisk never gives Missing.
C13_StatusThresholds ==
    /\ \A k \in Resolved :
         LET score == results[k].similarityScore
         IN  /\ results[k].status \in {"Aligned", "Partial", "Non-Compliant"}
             /\ (results[k].status = "Aligned") = AtLeast(score, 85)
             /\ (results[k].status = "Partial") =
                    (AtLeast(score, 65) /\ ~AtLeast(score, 85))
             /\ (results[k].status = "Non-Compliant") = ~AtLeast(score, 65)
             /\ score = <<85, 100>> => results[k].status = "Aligned"
             /\ score = <<65, 100>> => results[k].status = "Partial"
             /\ score = <<649999, 1000000>> => results[k].status = "Non-Compliant"
    /\ \A k \in 1..Len(results) :
         results[k].status = "Missing" => k \notin Resolved

\* A score of exactly 0.65 was resolved
C13_Witness ==
    \E k \in Resolved :
        results[k].similarityScore = <<65, 100>> /\ results[k].status = "Partial"

HighWordSummaries ==
    {<<"Significant gap and risk for the client.">>, <<"CRITICAL deviation.">>}
MediumWordSummaries ==
    {<<"Some risk for the client.">>, <<"Minor concern.">>}

\* C14: Non-Compliant and Missing results have risk high; a Partial result has
\* risk high if its analysis summary holds a high-risk word, else medium if it
\* holds a medium-risk word, else low; an Aligned result has risk low
\* whatever its analysis says.
C14_RiskMapping ==
    \A k \in 1..Len(results) :
        LET r == results[k]
        IN  /\ r.status \in {"Non-Compliant", "Missing"} => r.risk = "high"
            /\ r.status = "Aligned" => r.risk = "low"
            /\ r.status = "Partial" =>
                  r.risk = IF r.summary \in HighWordSummaries THEN "high"
                           ELSE IF r.summary \in MediumWordSummaries THEN "medium"
                           ELSE "low"

\* A Partial result whose summary has a medium-risk word only
C14_Witness ==
    \E k \in Resolved :
        /\ results[k].status = "Partial"
        /\ results[k].summary = <<"Minor concern.">>
        /\ results[k].risk = "medium"

\* C15: a result has no suggested fix exactly when it is Aligned; a Missing
\* result has the 'Add' template and a Partial or Non-Compliant result the
\* 'Review and align' template, filled with the type and the title of the
\* client clause of the result.
C15_SuggestedFix ==
    pos = Len(results) /\ \A k \in 1..Len(results) :
        LET r     == results[k]
            type  == ClientType(Src(k))
            title == clientClauses[Src(k)].sectionTitle
        IN  /\ (r.suggestedFix = Undefined) = (r.status = "Aligned")
            /\ r.status = "Missing" => r.suggestedFix = <<"Add", type, title>>
            /\ r.status \in {"Partial", "Non-Compliant"} =>
                  r.suggestedFix = <<"Review and align", type, title>>

\* A run of compareClauses returned a Missing, an Aligned and a Partial result
C15_Witness ==
    /\ Returned
    /\ \E a, b, c \in 1..Len(results) :
         /\ results[a].status = "Missing"
         /\ results[b].status = "Aligned"
         /\ results[c].status = "Partial"

----------------------------------------------------------------------------
(* Claims about the similarity scorer (SpecScore) *)

\* The number of times the word occurs in the text
Count(word, text) == Cardinality({i \in 1..Len(text) : text[i] = word})

\* The words both texts hold that are not stop words
SharedWords(a, b) == (Range(a) \cap Range(b)) \ StopWords

\* The weight of a shared word in a corpus of the two texts: its count times
\* the idf of a term that both documents hold.
SharedWeight(word, text) == Count(word, text) * 595

\* The second call was made after one block of the first got one more word,
\* which the other block does not hold
OneSidedWordAdded ==
    /\ Len(scores) = 2
    /\ \/ /\ scores[2].text2 = scores[1].text2
          /\ scores[2].text1 = Append(scores[1].text1, scores[2].text1[Len(scores[2].text1)])
          /\ scores[2].text1[Len(scores[2].text1)] \notin Range(scores[1].text2)
       \/ /\ scores[2].text1 = scores[1].text1
          /\ scores[2].text2 = Append(scores[1].text2, scores[2].text2[Len(scores[2].text2)])
          /\ scores[2].text2[Len(scores[2].text2)] \notin Range(scores[1].text1)

Positive(score) == score[1] > 0

\* C17 as claimed: a word added to one block that the other block does not
\* hold lowers a positive score.
C17_OneSidedWordLowersScore ==
    (OneSidedWordAdded /\ Positive(scores[1].similarity)) =>
        ScoreGT(scores[1].similarity, scores[2].similarity)

\* C17: a word added to one block that the other block does not hold leaves
\* the score as it was.
C17_OneSidedWordKeepsScore ==
    OneSidedWordAdded => ScoreEQ(scores[1].similarity, scores[2].similarity)

\* A score below 1 and above 0 was kept when a word that is no stop word and
\* that the other block does not hold was added
C17_Witness ==
    /\ OneSidedWordAdded
    /\ Positive(scores[1].similarity)
    /\ ScoreGT(<<1, 1>>, scores[1].similarity)
    /\ \/ scores[2].text1[Len(scores[2].text1)] = "invoice" /\ Len(scores[2].text1) > Len(scores[1].text1)
       \/ scores[2].text2[Len(scores[2].text2)] = "invoice" /\ Len(scores[2].text2) > Len(scores[1].text2)
    /\ ScoreEQ(scores[1].similarity, scores[2].similarity)

\* C18: every score is a quotient between 0 and 1; it is the sum of the
\* smaller weights over the sum of the larger weights of the words both
\* blocks hold with positive weight, and 0 when there is no such word.
C18_ScoreIsOverlapQuotient ==
    \A k \in 1..Len(scores) :
        LET a      == scores[k].text1
            b      == scores[k].text2
            shared == SharedWords(a, b)
            mins   == [w \in shared |-> Min(SharedWeight(w, a), SharedWeight(w, b))]
            maxs   == [w \in shared |-> Max(SharedWeight(w, a), SharedWeight(w, b))]
            value  == scores[k].similarity
        IN  /\ value[2] > 0
            /\ 0 <= value[1]
            /\ value[1] <= value[2]
            /\ shared = {} => value[1] = 0
            /\ shared # {} => ScoreEQ(value, <<SumOver(shared, mins), SumOver(shared, maxs)>>)

\* Two blocks that differ and share a word were scored strictly between 0 and 1
C18_Witness ==
    \E k \in 1..Len(scores) :
        /\ Positive(scores[k].similarity)
        /\ ScoreGT(<<1, 1>>, scores[k].similarity)
        /\ Cardinality(SharedWords(scores[k].text1, scores[k].text2)) = 2

\* C19: two identical blocks that hold a positively weighted word score 1.
C19_IdenticalScoresOne ==
    \A k \in 1..Len(scores) :
        (scores[k].text1 = scores[k].text2
            /\ SharedWords(scores[k].text1, scores[k].text2) # {})
        => ScoreEQ(scores[k].similarity, <<1, 1>>)

\* Identical blocks of a stop word and another word were scored
C19_Witness ==
    \E k \in 1..Len(scores) :
        /\ scores[k].text1 = scores[k].text2
        /\ "the" \in Range(scores[k].text1)
        /\ SharedWords(scores[k].text1, scores[k].text2) # {}
        /\ scores[k].similarity[1] = scores[k].similarity[2]

\* C21: every section pushed or in progress has content that is not empty:
\* it begins with its heading line, which holds at least its marker; and
\* every clause parsePDF returns has content.
C21_ContentNonEmpty ==
    /\ \A k \in 1..Len(Started) :
         /\ Started[k].content # <<>>
         /\ Started[k].content[1] # <<>>
    /\ \A k \in 1..Len(clientClauses) : clientClauses[k].content # <<>>

\* A text whose last line is a heading line of one token was parsed
C21_Witness ==
    /\ phase = "returned"
    /\ Len(clientDoc) >= 2
    /\ \E k \in 1..Len(sections) : Len(Flatten(sections[k].content)) = 2
    /\ Len(clientClauses) = Len(sections)

\* The indices k of the heading lines that are directly followed by a heading
\* line, as indices into the sections
AdjacentHeadings ==
    {k \in 1..Len(sections) :
        /\ Cardinality(HeadingLines(Len(clientDoc))) > k
        /\ KthHeading(k + 1) = KthHeading(k) + 1}

\* C24 as claimed: of two adjacent heading lines the first gives a section
\* that is emitted and whose content is the empty string.
C24_AdjacentHeadingEmptyContent ==
    phase = "returned" =>
        \A k \in AdjacentHeadings : sections[k].content \in {<<>>, << <<>> >>}

\* C24: of two adjacent heading lines the first gives a section that is
\* emitted and whose content is exactly its heading line.
C24_AdjacentHeadingOwnLine ==
    phase = "returned" =>
        /\ Len(sections) = Cardinality(HeadingLines(Len(clientDoc)))
        /\ \A k \in AdjacentHeadings :
             sections[k].content = <<clientDoc[KthHeading(k)]>>

C24_Witness ==
    /\ phase = "returned"
    /\ AdjacentHeadings # {}
    /\ \E k \in AdjacentHeadings : Len(clientClauses[k].content) = 2

\* C26: the number of a section is the whole marker its heading line begins
\* with.
C26_NumberIsWholeMarker ==
    \A k \in 1..Len(Started) : Started[k].number = Started[k].content[1][1]

----------------------------------------------------------------------------
(* Claims about the classifiers (SpecClassify) *)

\* The order of the types as the claim lists them
ListedTypes ==
    <<"Payment Terms", "Delivery Terms", "Risk and Liability", "Acceptance",
      "Termination", "Confidentiality", "Intellectual Property",
      "Service Level", "Data Protection", "Force Majeure", "Governing Law">>

ListedAt(type) == CHOOSE k \in 1..Len(ListedTypes) : ListedTypes[k] = type

\* C22: the type of a classified text is one type of the closed set; it is
\* General Terms exactly when no keyword set has a hit in the text, and
\* otherwise it is the type, among those whose keyword set has a hit, that is
\* listed first.
C22_FirstMatchWins ==
    phase = "classified" =>
        LET type == clientClauses[1].type
            hits == TextHits(clientClauses[1].content)
        IN  /\ type \in Range(ListedTypes) \cup {"General Terms"}
            /\ (type = "General Terms") = (hits = {})
            /\ hits # {} =>
                  /\ type \in hits
                  /\ \A other \in hits : ListedAt(type) <= ListedAt(other)

\* A text that hits three keyword sets was classified
C22_Witness ==
    /\ phase = "classified"
    /\ Cardinality(TextHits(clientClauses[1].content)) = 3
    /\ clientClauses[1].type = "Delivery Terms"

\* C27: a clause the general classifier types as Termination, Delivery Terms
\* or Payment Terms is mapped by normalizeClauseType, applied to its type and
\* content, to the reporting type of the same name.
C27_ClassifiersAgree ==
    phase = "classified" =>
        (clientClauses[1].type \in {"Termination", "Delivery Terms", "Payment Terms"}
            => normalizeClauseType(clientClauses[1].type, clientClauses[1].content)
                   = clientClauses[1].type)

----------------------------------------------------------------------------
(* Claims about the reporting path of the route (SpecRoute) *)

\* The order of the reported types as the claim lists them
ReportedTypes ==
    <<"Termination", "Delivery Terms", "Payment Terms", "Confidentiality and IP",
      "Limitation of Liability">>

\* The entries of the response whose text of one side holds the content
EntriesHolding(side, content) ==
    {k \in 1..Len(response.aiComparisonResults) :
        \E j \in 1..Len(response.aiComparisonResults[k][side]) :
            response.aiComparisonResults[k][side][j] = content}

\* Every section of the list is in at most one entry, and in none when no
\* reported type matches it
AtMostOneEntry(clauses, side) ==
    \A i \in 1..Len(clauses) :
        /\ Cardinality(EntriesHolding(side, clauses[i].content)) <= 1
        /\ normalizeClauseType(clauses[i].type, clauses[i].content) = ""
              => EntriesHolding(side, clauses[i].content) = {}

\* C23: the response of the reporting path has exactly one entry per key
\* clause type, in the fixed order; every section is in the text of at most one
\* entry and in none when it matches no key type; the analysis call of an
\* entry is made exactly when both its client text and its vendor text are
\* non-empty, and otherwise the entry is the fixed not-found record.
C23_OneEntryPerKeyType ==
    Answered =>
        /\ Len(response.aiComparisonResults) = Len(ReportedTypes)
        /\ \A k \in 1..Len(ReportedTypes) :
             LET e == response.aiComparisonResults[k]
             IN  /\ e.clauseType = ReportedTypes[k]
                 /\ (calls[k] # "notfound") =
                        (e.clientClause # <<>> /\ e.vendorClause # <<>>)
                 /\ calls[k] # "notfound" => calls[k] \in CallEnds \cup {"timeout"}
                 /\ calls[k] = "notfound" =>
                        /\ e.summary = <<"Clause not found in one or both contracts.">>
                        /\ e.risk = "UNKNOWN"
        /\ AtMostOneEntry(clientClauses, "clientClause")
        /\ AtMostOneEntry(vendorClauses, "vendorClause")

\* A response with an entry whose call was made, an entry with a client text
\* only, and a client section that matches no key type
C23_Witness ==
    /\ Answered
    /\ \E k \in KeyIdx : calls[k] \in CallEnds
    /\ \E k \in KeyIdx :
         /\ calls[k] = "notfound"
         /\ response.aiComparisonResults[k].clientClause # <<>>
         /\ response.aiComparisonResults[k].vendorClause = <<>>
    /\ \E i \in 1..Len(clientClauses) :
         normalizeClauseType(clientClauses[i].type, clientClauses[i].content) = ""

----------------------------------------------------------------------------
(* Claims about enhanceResultsWithAI (SpecEnhance) *)

\* The results whose completion request was made and answered with content
Suggested == {i \in 1..Len(gpt) : gpt[i] = "ok"}

\* C28: the list returned has the length and the order of the list given, an
\* Aligned entry is returned as given, and every other entry whose own call
\* succeeded carries the suggestion of that call, whether or not the call of
\* another entry failed.
C28_FailuresAreIsolated ==
    (phase = "enhanced" /\ apiKey) =>
        /\ Len(enhanced) = Len(results)
        /\ \A i \in 1..Len(results) :
             /\ enhanced[i].clauseTitle = results[i].clauseTitle
             /\ results[i].status = "Aligned" => enhanced[i] = results[i]
             /\ i \in Suggested => enhanced[i].suggestedFix = Suggestion(results[i])

----------------------------------------------------------------------------
(* Claims about the lazily created pipelines (SpecSingletons) *)

\* C29: for every interleaving of the callers of getClassifier and
\* getEmbedder, pipeline() is called at most once for each of the two, and all
\* callers that got a classifier, or an embedder, got the same instance.
C29_PipelinesAreSingletons ==
    \A p \in Pipelines :
        /\ built[p] <= 1
        /\ \A c, d \in Callers :
             (/\ callers[c].pc = "returned" /\ callers[c].which = p
              /\ callers[d].pc = "returned" /\ callers[d].which = p)
                 => callers[c].got = callers[d].got

----------------------------------------------------------------------------
(* Claims about the compare button of the UI (SpecUI) *)

RequestInFlight == fetch \in {"inflight", "body", "errorBody"}
AttemptOver == fetch \in {"done", "failed"}

\* C30: loading is true as long as the request of an attempt is in flight;
\* once an attempt is over, with or without success, loading and finalizing are
\* false and the timer is stopped, and no step changes progress or finalizing
\* until the next attempt starts; the step that ends a failed attempt sets the
\* error message, and the list on display changes only in the step that ends a
\* successful attempt.
C30_AttemptAlwaysCleansUp ==
    /\ [](RequestInFlight => loading)
    /\ [](AttemptOver => (~loading /\ ~finalizing /\ timer # "running"))
    /\ [][(AttemptOver /\ AttemptOver')
            => (progress' = progress /\ finalizing' = finalizing)]_vars
    /\ [][(fetch # "failed" /\ fetch' = "failed") => uiError' # ""]_vars
    /\ [][shown' # shown => (RequestInFlight /\ fetch' = "done")]_vars

\* An attempt failed after the timer had run to its end, with the list of an
\* earlier successful attempt on display
C30_Witness ==
    /\ fetch = "failed"
    /\ uiError # ""
    /\ shown # <<>>
    /\ currentStep = Len(ANALYSIS_STEPS)
    /\ timer = "cleared"
    /\ ~loading /\ ~finalizing

----------------------------------------------------------------------------
(* Claims about splitIntoObligations (SpecObligations) *)

\* The first position from which on the fragment stands in the text, 0 if none
FirstAt(fragment, whole, from) ==
    LET at == {i \in from..(Len(whole) - Len(fragment) + 1) :
                  SubSeq(whole, i, i + Len(fragment) - 1) = fragment}
    IN  IF at = {} THEN 0 ELSE CHOOSE i \in at : \A j \in at : i <= j

\* The fragments stand in the text one after the other, without overlap
RECURSIVE InTextOrder(_, _, _)
InTextOrder(fragments, whole, from) ==
    IF fragments = <<>> THEN TRUE
    ELSE /\ FirstAt(Head(fragments), whole, from) > 0
         /\ InTextOrder(Tail(fragments), whole,
                        FirstAt(Head(fragments), whole, from) + Len(Head(fragments)))

\* One of the five delimiters stands inside the fragment
HoldsDelimiter(fragment) ==
    \E k \in 1..Len(DelimiterMark), i \in 1..Len(fragment) :
        DelimiterEnd(k, fragment, i) > 0

\* C25: whatever the text, no fragment returned is empty or only whitespace,
\* every fragment is trimmed, the fragments stand in the text in the order
\* of the list, and, the five passes each working on what the pass before
\* left, none of the five delimiters is left inside a fragment.
C25_FragmentsTrimmedInOrder ==
    phase = "divided" =>
        /\ \A n \in 1..Len(obligations) :
             /\ obligations[n] # <<>>
             /\ \E i \in 1..Len(obligations[n]) : obligations[n][i] # " "
             /\ obligations[n][1] # " "
             /\ obligations[n][Len(obligations[n])] # " "
             /\ ~HoldsDelimiter(obligations[n])
        /\ InTextOrder(obligations, obligationText, 1)

\* A text with two kinds of delimiter was split at both, its whitespace-only
\* first piece dropped
C25_Witness ==
    /\ phase = "divided"
    /\ obligationText = <<" ", ".", " ", "A", ";", " ", "A">>
    /\ obligations = << <<"A">>, <<"A">> >>

====
